---- MODULE Spec2Model ----
(***************************************************************************)
(* Model of the session-managed HTTP transport of vibeco-mcp:              *)
(*   - LRUCache            (src/utils/lru-cache.ts)                        *)
(*   - CORS path matcher   (src/server/cors.ts)                            *)
(*   - HTTP session server (src/server/http-server.ts)                     *)
(*                                                                         *)
(* A JavaScript Map is a sequence of [key, value] entries in insertion     *)
(* order.  Strings used as keys are numbered 1..NumKeys; values stored in  *)
(* a cache are positive integers (for the server: references to            *)
(* SessionInfo objects), and 0 stands for JavaScript's undefined.          *)
(***************************************************************************)
EXTENDS Integers, Sequences, FiniteSets, TLC

\* ------------------------------------------------------------------ bounds
NumKeys == 3
MaxCap == 3
MaxPathLen == 3
MaxTransports == 3
NumReqs == 1
MaxTime == 3
MaxInFlight == 2

Keys == 1..NumKeys
Values == {1, 2}
Undefined == 0

VARIABLES
  maxSize,      \* LRUCache.maxSize
  hasOnEvict,   \* whether options.onEvict was supplied
  cache,        \* LRUCache.cache: the Map, oldest insertion first
  lastCall,     \* the last method call on the cache: arguments, result, state before
  recency,      \* history: the cached keys ordered by their last access (a set,
                \* or a get that returned a value), oldest first
  watch,        \* history: the last successful get, [key, others]: others are the
                \* keys present at that get, still cached and not accessed since
  shadow        \* a second cache that receives the same calls, except has()

cacheVars == <<maxSize, hasOnEvict, cache, lastCall, recency, watch, shadow>>

VARIABLES
  requestPath,  \* matchesAllowedPathBoundary / isCorsAllowedPath: requestPath
  allowedPath,  \* matchesAllowedPathBoundary: allowedPath
  pathDone,     \* whether the two functions have been applied to the paths
  matched,      \* result of matchesAllowedPathBoundary(requestPath, allowedPath)
  corsAllowed   \* result of isCorsAllowedPath(requestPath)

pathVars == <<requestPath, allowedPath, pathDone, matched, corsAllowed>>

VARIABLES
  sessions,     \* the LRUCache<SessionInfo> of the server: session id -> SessionInfo
  lastActivity, \* SessionInfo.lastActivity, per SessionInfo (one per transport)
  created,      \* number of StreamableHTTPServerTransport objects constructed
  tSessionId,   \* transport.sessionId per transport (undefined until initialized)
  closeCalls,   \* per transport: calls of transport.close() made by the server
  now,          \* Date.now()
  reqs,         \* the requests in flight: where each handler is suspended
  lastReq,      \* the handler step just run: request, response, state before
  touchOrder,   \* history: the keys of the cached sessions, least recently requested first
  process,      \* the listening socket, the sweep timer, the exit timer, the exit code
  selfClosed    \* history: the transports whose onclose handler removed their session

serverVars == <<sessions, lastActivity, created, tSessionId, closeCalls, now, reqs, lastReq,
                touchOrder, process, selfClosed>>

vars == <<cacheVars, pathVars, serverVars>>

\* ------------------------------------------------------- JavaScript Map
MapEntry(k, v) == [key |-> k, value |-> v]

MapHas(m, k) == \E i \in DOMAIN m : m[i].key = k

MapIndex(m, k) == CHOOSE i \in DOMAIN m : m[i].key = k

MapGet(m, k) == IF MapHas(m, k) THEN m[MapIndex(m, k)].value ELSE Undefined

MapDelete(m, k) == SelectSeq(m, LAMBDA e : e.key # k)

\* Map.prototype.set: an existing key keeps its position, a new key goes last.
MapSet(m, k, v) ==
  IF MapHas(m, k)
    THEN [i \in DOMAIN m |-> IF m[i].key = k THEN MapEntry(k, v) ELSE m[i]]
    ELSE Append(m, MapEntry(k, v))

MapKeys(m) == [i \in DOMAIN m |-> m[i].key]

\* ------------------------------------------------------------- LRUCache
LRUGet_NoPromote(c, k) == [cache |-> c, ret |-> MapGet(c, k)]

\* get(key): a defined value is deleted and re-inserted (moved last).
LRUGet(c, k) ==
  LET value == MapGet(c, k)
  IN  [cache |-> IF value # Undefined THEN MapSet(MapDelete(c, k), k, value) ELSE c,
       ret   |-> value]

LRUHas_Promoting(c, k) == [cache |-> LRUGet(c, k).cache, ret |-> MapHas(c, k)]

\* has(key): Map.has, nothing else.
LRUHas(c, k) == [cache |-> c, ret |-> MapHas(c, k)]

LRUDelete_Clearing(c, k) == [cache |-> IF MapHas(c, k) THEN <<>> ELSE c, ret |-> MapHas(c, k)]

\* delete(key): Map.delete, which reports whether the key existed.
LRUDelete(c, k) == [cache |-> MapDelete(c, k), ret |-> MapHas(c, k)]

\* size getter
LRUSize(c) == Len(c)

LRUEntries_NewestFirst(c) ==
  [i \in DOMAIN c |-> <<c[Len(c) + 1 - i].key, c[Len(c) + 1 - i].value>>]

\* entries(): yields the Map's [key, value] pairs in Map order.
LRUEntries(c) == [i \in DOMAIN c |-> <<c[i].key, c[i].value>>]

\* clear()
LRUClear(c) == <<>>

\* Mutants of set: the newest entry is evicted; the capacity test comes before
\* the membership test; the hook runs before the victim is deleted.
LRUSet_EvictNewest(max, hook, c, k, v, hookThrows) ==
  IF MapHas(c, k)
    THEN [cache |-> MapSet(MapDelete(c, k), k, v), hookCalls |-> <<>>, threw |-> FALSE]
  ELSE IF Len(c) >= max /\ Len(c) > 0
    THEN LET victim  == MapKeys(c)[Len(c)]
             removed == MapDelete(c, victim)
             calls   == IF hook THEN <<[key |-> victim, value |-> MapGet(c, victim),
                                        seen |-> removed]>>
                        ELSE <<>>
         IN  IF hook /\ hookThrows
               THEN [cache |-> removed, hookCalls |-> calls, threw |-> TRUE]
               ELSE [cache |-> MapSet(removed, k, v), hookCalls |-> calls, threw |-> FALSE]
  ELSE [cache |-> MapSet(c, k, v), hookCalls |-> <<>>, threw |-> FALSE]

LRUSet_CapacityFirst(max, hook, c, k, v, hookThrows) ==
  IF Len(c) >= max /\ Len(c) > 0
    THEN LET victim  == MapKeys(c)[1]
             removed == MapDelete(c, victim)
             calls   == IF hook THEN <<[key |-> victim, value |-> MapGet(c, victim),
                                        seen |-> removed]>>
                        ELSE <<>>
         IN  IF hook /\ hookThrows
               THEN [cache |-> removed, hookCalls |-> calls, threw |-> TRUE]
               ELSE [cache |-> MapSet(MapDelete(removed, k), k, v), hookCalls |-> calls,
                     threw |-> FALSE]
  ELSE [cache |-> MapSet(MapDelete(c, k), k, v), hookCalls |-> <<>>, threw |-> FALSE]

LRUSet_HookBeforeDelete(max, hook, c, k, v, hookThrows) ==
  IF MapHas(c, k)
    THEN [cache |-> MapSet(MapDelete(c, k), k, v), hookCalls |-> <<>>, threw |-> FALSE]
  ELSE IF Len(c) >= max /\ Len(c) > 0
    THEN LET victim  == MapKeys(c)[1]
             removed == MapDelete(c, victim)
             calls   == IF hook THEN <<[key |-> victim, value |-> MapGet(c, victim),
                                        seen |-> c]>>
                        ELSE <<>>
         IN  IF hook /\ hookThrows
               THEN [cache |-> removed, hookCalls |-> calls, threw |-> TRUE]
               ELSE [cache |-> MapSet(removed, k, v), hookCalls |-> calls, threw |-> FALSE]
  ELSE [cache |-> MapSet(c, k, v), hookCalls |-> <<>>, threw |-> FALSE]

LRUSet_RollsBack(max, hook, c, k, v, hookThrows) ==
  IF MapHas(c, k)
    THEN [cache |-> MapSet(MapDelete(c, k), k, v), hookCalls |-> <<>>, threw |-> FALSE]
  ELSE IF Len(c) >= max /\ Len(c) > 0
    THEN LET victim  == MapKeys(c)[1]
             removed == MapDelete(c, victim)
             calls   == IF hook THEN <<[key |-> victim, value |-> MapGet(c, victim),
                                        seen |-> removed]>>
                        ELSE <<>>
         IN  IF hook /\ hookThrows
               THEN [cache |-> c, hookCalls |-> calls, threw |-> TRUE]
               ELSE [cache |-> MapSet(removed, k, v), hookCalls |-> calls, threw |-> FALSE]
  ELSE [cache |-> MapSet(c, k, v), hookCalls |-> <<>>, threw |-> FALSE]

\* set(key, value).  max is this.maxSize, hook says whether this.onEvict is
\* set, hookThrows whether the hook (when called) throws.  The result holds
\* the Map after the call, the hook calls made (each with the Map as it was
\* when the hook ran) and whether the call threw.
LRUSet(max, hook, c, k, v, hookThrows) ==
  IF MapHas(c, k)
    THEN [cache |-> MapSet(MapDelete(c, k), k, v), hookCalls |-> <<>>, threw |-> FALSE]
  ELSE IF Len(c) >= max
    THEN IF Len(c) = 0
           THEN [cache |-> c, hookCalls |-> <<>>, threw |-> TRUE]
           ELSE LET oldestKey   == MapKeys(c)[1]
                    oldestValue == MapGet(c, oldestKey)
                    removed     == MapDelete(c, oldestKey)
                    called      == hook /\ oldestValue # Undefined
                    calls       == IF called
                                     THEN <<[key |-> oldestKey, value |-> oldestValue,
                                             seen |-> removed]>>
                                     ELSE <<>>
                IN  IF called /\ hookThrows
                      THEN [cache |-> removed, hookCalls |-> calls, threw |-> TRUE]
                      ELSE [cache |-> MapSet(removed, k, v), hookCalls |-> calls,
                            threw |-> FALSE]
  ELSE [cache |-> MapSet(c, k, v), hookCalls |-> <<>>, threw |-> FALSE]

\* ------------------------------------------- the cache driven by a client
KeysOf(m) == {m[i].key : i \in DOMAIN m}

\* k becomes the most recently accessed key of the history.
Accessed(r, k) == Append(SelectSeq(r, LAMBDA x : x # k), k)

\* The history forgets the keys that left the cache.
Forget(r, newCache) == SelectSeq(r, LAMBDA x : x \in KeysOf(newCache))

NoWatch == [key |-> 0, others |-> {}]

\* The watch after a call that accessed the keys in acc and left newCache.
WatchAfter(w, acc, newCache) ==
  IF w.key \in acc \/ w.key \notin KeysOf(newCache)
    THEN NoWatch
    ELSE [key |-> w.key, others |-> (w.others \ acc) \cap KeysOf(newCache)]

Call(op, k, v, ret, calls, threw, sret, scalls) ==
  [op |-> op, key |-> k, value |-> v, ret |-> ret, hookCalls |-> calls, threw |-> threw,
   pre |-> cache, preRecency |-> recency, preWatch |-> watch,
   shadowRet |-> sret, shadowHookCalls |-> scalls]

CacheIdle ==
  /\ maxSize = 1
  /\ hasOnEvict = FALSE
  /\ cache = <<>>
  /\ shadow = <<>>
  /\ recency = <<>>
  /\ watch = NoWatch
  /\ lastCall = [op |-> "new", key |-> 0, value |-> 0, ret |-> 0, hookCalls |-> <<>>,
                 threw |-> FALSE, pre |-> <<>>, preRecency |-> <<>>, preWatch |-> NoWatch,
                 shadowRet |-> 0, shadowHookCalls |-> <<>>]

CacheInit ==
  /\ maxSize \in 1..MaxCap
  /\ hasOnEvict \in BOOLEAN
  /\ cache = <<>>
  /\ shadow = <<>>
  /\ recency = <<>>
  /\ watch = NoWatch
  /\ lastCall = [op |-> "new", key |-> 0, value |-> 0, ret |-> 0, hookCalls |-> <<>>,
                 threw |-> FALSE, pre |-> <<>>, preRecency |-> <<>>, preWatch |-> NoWatch,
                 shadowRet |-> 0, shadowHookCalls |-> <<>>]

CacheSet(k, v, hookThrows) ==
  LET r == LRUSet(maxSize, hasOnEvict, cache, k, v, hookThrows)
      s == LRUSet(maxSize, hasOnEvict, shadow, k, v, hookThrows)
  IN  /\ cache' = r.cache
      /\ shadow' = s.cache
      /\ lastCall' = Call("set", k, v, Undefined, r.hookCalls, r.threw,
                          Undefined, s.hookCalls)
      /\ recency' = Forget(IF r.threw THEN recency ELSE Accessed(recency, k), r.cache)
      /\ watch' = WatchAfter(watch, IF r.threw THEN {} ELSE {k}, r.cache)
      /\ UNCHANGED <<maxSize, hasOnEvict>>
      /\ UNCHANGED <<pathVars, serverVars>>

\* A set whose eviction hook throws.
CacheSetHookThrows(k, v) ==
  /\ LRUSet(maxSize, hasOnEvict, cache, k, v, TRUE).threw
  /\ CacheSet(k, v, TRUE)

CacheGet(k) ==
  LET r == LRUGet(cache, k)
      s == LRUGet(shadow, k)
  IN  /\ cache' = r.cache
      /\ shadow' = s.cache
      /\ lastCall' = Call("get", k, Undefined, r.ret, <<>>, FALSE, s.ret, <<>>)
      /\ recency' = IF r.ret # Undefined THEN Accessed(recency, k) ELSE recency
      /\ watch' = IF r.ret # Undefined
                    THEN [key |-> k, others |-> KeysOf(cache) \ {k}]
                    ELSE watch
      /\ UNCHANGED <<maxSize, hasOnEvict>>
      /\ UNCHANGED <<pathVars, serverVars>>

CacheHas(k) ==
  LET r == LRUHas(cache, k)
  IN  /\ cache' = r.cache
      /\ lastCall' = Call("has", k, Undefined, r.ret, <<>>, FALSE, Undefined, <<>>)
      /\ watch' = WatchAfter(watch, {}, r.cache)
      /\ UNCHANGED <<maxSize, hasOnEvict, recency, shadow>>
      /\ UNCHANGED <<pathVars, serverVars>>

CacheDelete(k) ==
  LET r == LRUDelete(cache, k)
      s == LRUDelete(shadow, k)
  IN  /\ cache' = r.cache
      /\ shadow' = s.cache
      /\ lastCall' = Call("delete", k, Undefined, r.ret, <<>>, FALSE, s.ret, <<>>)
      /\ watch' = WatchAfter(watch, {}, r.cache)
      /\ recency' = Forget(recency, r.cache)
      /\ UNCHANGED <<maxSize, hasOnEvict>>
      /\ UNCHANGED <<pathVars, serverVars>>

CacheEntries ==
  /\ lastCall' = Call("entries", 0, Undefined, LRUEntries(cache), <<>>, FALSE,
                      LRUEntries(shadow), <<>>)
  /\ UNCHANGED <<maxSize, hasOnEvict, cache, recency, watch, shadow>>
  /\ UNCHANGED <<pathVars, serverVars>>

CacheSize ==
  /\ lastCall' = Call("size", 0, Undefined, LRUSize(cache), <<>>, FALSE,
                      LRUSize(shadow), <<>>)
  /\ UNCHANGED <<maxSize, hasOnEvict, cache, recency, watch, shadow>>
  /\ UNCHANGED <<pathVars, serverVars>>

CacheClear ==
  /\ cache' = LRUClear(cache)
  /\ shadow' = LRUClear(shadow)
  /\ lastCall' = Call("clear", 0, Undefined, Undefined, <<>>, FALSE, Undefined, <<>>)
  /\ watch' = NoWatch
  /\ recency' = Forget(recency, LRUClear(cache))
  /\ UNCHANGED <<maxSize, hasOnEvict>>
  /\ UNCHANGED <<pathVars, serverVars>>

CacheNext ==
  \/ \E k \in Keys, v \in Values : CacheSet(k, v, FALSE)
  \/ \E k \in Keys, v \in Values : CacheSetHookThrows(k, v)
  \/ \E k \in Keys : CacheGet(k)
  \/ \E k \in Keys : CacheHas(k)
  \/ \E k \in Keys : CacheDelete(k)
  \/ CacheEntries
  \/ CacheSize
  \/ CacheClear

\* ------------------------------------------------------ CORS path matcher
\* A string is the sequence of its characters.
Chars == {"/", "m", "-"}

StringsUpTo(n) == UNION {[1..len -> Chars] : len \in 0..n}

McpPath == <<"/", "m", "c", "p">>

CORS_ALLOWED_PATHS == <<McpPath>>

\* String.prototype.startsWith / endsWith
StartsWith(str, prefix) ==
  /\ Len(prefix) <= Len(str)
  /\ SubSeq(str, 1, Len(prefix)) = prefix

EndsWith(str, suffix) ==
  /\ Len(suffix) <= Len(str)
  /\ SubSeq(str, Len(str) - Len(suffix) + 1, Len(str)) = suffix

matchesAllowedPathBoundary_PlainPrefix(reqPath, allowed) == StartsWith(reqPath, allowed)

matchesAllowedPathBoundary(reqPath, allowed) ==
  IF reqPath = allowed THEN TRUE
  ELSE IF EndsWith(allowed, <<"/">>) THEN StartsWith(reqPath, allowed)
  ELSE StartsWith(reqPath, allowed \o <<"/">>)

isCorsAllowedPath(reqPath) ==
  \E i \in DOMAIN CORS_ALLOWED_PATHS :
    matchesAllowedPathBoundary(reqPath, CORS_ALLOWED_PATHS[i])

\* The paths tried: every short string, the same after "/mcp", and the paths
\* of the tests.
RequestPaths ==
  StringsUpTo(MaxPathLen)
    \cup {McpPath \o rest : rest \in StringsUpTo(MaxPathLen)}
    \cup {<<"/", "m", "c", "p", "-", "a", "d", "m", "i", "n">>,
          <<"/", "m", "c", "p", "/", "x">>, <<"/", "a">>, <<"/", "a", "/">>,
          <<"/", "a", "/", "b">>, <<"/", "a", "p", "i">>}

AllowedPaths == StringsUpTo(MaxPathLen) \cup {McpPath, <<"/", "a">>, <<"/", "a", "/">>}

PathIdle ==
  /\ requestPath = <<>>
  /\ allowedPath = <<>>
  /\ pathDone = FALSE
  /\ matched = FALSE
  /\ corsAllowed = FALSE

PathInit ==
  /\ requestPath \in RequestPaths
  /\ allowedPath \in AllowedPaths
  /\ pathDone = FALSE
  /\ matched = FALSE
  /\ corsAllowed = FALSE

\* The CORS middleware asks isCorsAllowedPath, which asks
\* matchesAllowedPathBoundary for each allowed path.
MatchPath ==
  /\ ~pathDone
  /\ pathDone' = TRUE
  /\ matched' = matchesAllowedPathBoundary(requestPath, allowedPath)
  /\ corsAllowed' = isCorsAllowedPath(requestPath)
  /\ UNCHANGED <<requestPath, allowedPath>>
  /\ UNCHANGED <<cacheVars, serverVars>>

PathNext == MatchPath

\* ---------------------------------------------------------- HTTP server
\* Scaled: the server keeps at most MAX_SESSIONS sessions (1000 in the source)
\* and closes a session idle for more than SESSION_IDLE_TIMEOUT_MS (30 min in
\* the source; here in units of the clock).
MAX_SESSIONS == 2
SESSION_IDLE_TIMEOUT_MS == 1

\* Scaled: the process exits SHUTDOWN_GRACE_MS after the shutdown handler ran
\* (5000 ms in the source).
SHUTDOWN_GRACE_MS == 1

JSONRPC_ERROR_INVALID_REQUEST == -32600
JSONRPC_ERROR_INTERNAL == -32603

Transports == 1..MaxTransports
Reqs == 1..NumReqs

\* The mcp-session-id header: absent (undefined), the empty string, or a
\* non-empty string.  The non-empty strings are the ids the transports get
\* and one id that no transport ever gets.
Absent == -1
EmptyString == 0
SessionIds == 1..(MaxTransports + 1)
HeaderValues == {Absent, EmptyString} \cup SessionIds

randomUUID_Constant(t) == 1

\* sessionIdGenerator: () => randomUUID().  The t-th transport gets an id no
\* other transport gets.
randomUUID(t) == t

\* JavaScript truthiness of a string | undefined
Truthy(header) == header # Absent /\ header # EmptyString

Response(status, code, message) ==
  [status |-> status, code |-> code, message |-> message, id |-> "null"]

NotFoundResponse == Response(404, JSONRPC_ERROR_INVALID_REQUEST, "Session not found")
BadRequestResponse ==
  Response(400, JSONRPC_ERROR_INVALID_REQUEST, "Bad Request: No valid session ID provided")
MissingIdResponse == Response(400, JSONRPC_ERROR_INVALID_REQUEST, "Missing session ID")
InternalErrorResponse == Response(500, JSONRPC_ERROR_INTERNAL, "Internal server error")
TerminationErrorResponse ==
  Response(500, JSONRPC_ERROR_INTERNAL, "Error processing session termination")
\* The transport wrote the response itself; the handler wrote nothing.
EngineResponse == [status |-> 0, code |-> 0, message |-> "written by the transport", id |-> "-"]
\* Nobody wrote a response: the request is left unanswered.
Unanswered == [status |-> 0, code |-> 0, message |-> "no response", id |-> "-"]
\* The handler is suspended in an await; nothing written by the handler yet.
Pending == [status |-> 0, code |-> 0, message |-> "pending", id |-> "-"]

\* ------------------------------------------------- the middleware chain
\* The request line and the Origin header: undefined (no header), the empty
\* string, or an origin.
OriginAbsent == "undefined"
OriginValues == {OriginAbsent, "", "http://example.com"}

\* JavaScript truthiness of req.headers.origin
TruthyOrigin(origin) == origin # OriginAbsent /\ origin # ""

Methods == {"POST", "GET", "DELETE", "OPTIONS"}

OtherPath == <<"/", "o">>

HttpPaths == {McpPath, OtherPath}

CorsHeaders(origin) ==
  {<<"Access-Control-Allow-Origin", origin>>,
   <<"Access-Control-Allow-Methods", "GET, POST, DELETE, OPTIONS">>,
   <<"Access-Control-Allow-Headers", "Content-Type, mcp-session-id">>,
   <<"Access-Control-Max-Age", "86400">>}

NoCacheHeaders ==
  {<<"Cache-Control", "no-store, no-cache, must-revalidate, private">>,
   <<"Pragma", "no-cache">>,
   <<"Expires", "0">>}

\* app.use("/mcp", middleware): the middleware runs for /mcp and below
MountedAt(path, mount) ==
  path = mount \/ StartsWith(path, mount \o <<"/">>)

\* The response object while it goes down the chain: the headers set so far,
\* the status (0: not set), whether the response was ended, and by whom.
FreshRes == [headers |-> {}, status |-> 0, ended |-> FALSE, stage |-> "next"]

\* app.use("/mcp", limiter): a request over the limit is answered 429 and
\* goes no further.  Whether it is over the limit is the limiter's verdict.
Limiter(path, limited, res) ==
  IF MountedAt(path, McpPath) /\ limited
    THEN [res EXCEPT !.status = 429, !.ended = TRUE, !.stage = "ratelimit"]
    ELSE res

\* The CORS middleware
CorsMiddleware(method, origin, path, res) ==
  IF ~TruthyOrigin(origin) THEN res
  ELSE IF isCorsAllowedPath(path)
    THEN LET withCors == [res EXCEPT !.headers = @ \cup CorsHeaders(origin)]
         IN  IF method = "OPTIONS"
               THEN [withCors EXCEPT !.status = 204, !.ended = TRUE, !.stage = "preflight"]
               ELSE withCors
    ELSE [res EXCEPT !.status = 403, !.ended = TRUE, !.stage = "forbidden"]

\* app.use("/mcp", noCacheMiddleware)
NoCacheMiddleware(path, res) ==
  IF MountedAt(path, McpPath) THEN [res EXCEPT !.headers = @ \cup NoCacheHeaders] ELSE res

\* The middlewares in the order they are registered; each runs only when the
\* one before it called next().
Chain(method, origin, path, limited) ==
  LET a == Limiter(path, limited, FreshRes)
      b == IF a.ended THEN a ELSE CorsMiddleware(method, origin, path, a)
  IN  IF b.ended THEN b ELSE NoCacheMiddleware(path, b)

\* app.post / app.get / app.delete ("/mcp", handler)
Routed(method, path) == method \in {"POST", "GET", "DELETE"} /\ path = McpPath

\* What is known of the HTTP exchange of the step just run: the request line,
\* the Origin header and the response object as the chain left it.
NoHttp == [method |-> "-", origin |-> OriginAbsent, path |-> <<>>, res |-> FreshRes]

Http(method, origin, path, res) ==
  [method |-> method, origin |-> origin, path |-> path, res |-> res]

\* The response object of a request whose handler resumes after an await: the
\* headers the chain set on it whatever the Origin header of the request was.
Resumed(verb) ==
  LET set(o) == Chain(verb, o, McpPath, FALSE).headers
  IN  Http(verb, OriginAbsent, McpPath,
           [FreshRes EXCEPT !.headers = {h \in UNION {set(o) : o \in OriginValues} :
                                           \A o \in OriginValues : h \in set(o)}])

IdleReq == [pc |-> "idle", verb |-> "-", transport |-> 0, create |-> FALSE]

NoReq == [verb |-> "-", header |-> Absent, isInit |-> FALSE, branch |-> "-",
          response |-> Pending, preSessions |-> <<>>, preCreated |-> 0,
          preActivity |-> <<>>, preCloseCalls |-> <<>>, engine |-> 0, http |-> NoHttp,
          closeThrows |-> {}, syncClose |-> {}, visited |-> <<>>,
   steps |-> <<>>]

Handled(verb, header, isInit, branch, response) ==
  [verb |-> verb, header |-> header, isInit |-> isInit, branch |-> branch,
   response |-> response, preSessions |-> sessions, preCreated |-> created,
   preActivity |-> lastActivity, preCloseCalls |-> closeCalls, engine |-> 0,
   http |-> NoHttp, closeThrows |-> {}, syncClose |-> {}, visited |-> <<>>,
   steps |-> <<>>]

\* The same for a step that concerns one transport: the transport the request
\* is handed to, or the transport whose callback runs.
HandledBy(verb, header, isInit, branch, response, engine) ==
  [Handled(verb, header, isInit, branch, response) EXCEPT !.engine = engine]

\* The same for a request that came down the middleware chain to a handler.
Arrival(verb, origin, header, isInit, branch, response, engine) ==
  [HandledBy(verb, header, isInit, branch, response, engine)
     EXCEPT !.http = Http(verb, origin, McpPath, Chain(verb, origin, McpPath, FALSE))]

\* The chain hands the request to the handler registered for it.
Reaches(verb, origin) ==
  /\ ~Chain(verb, origin, McpPath, FALSE).ended
  /\ Routed(verb, McpPath)

CloseInTryCatch_NoCatch(t, closeThrows) == t \in closeThrows

\* try { session.transport.close().catch(log) } catch { log }: whether the
\* statement throws when close() of transport t throws synchronously (for
\* the transports in closeThrows).  The catch clause absorbs the exception,
\* and .catch() the rejection of the promise close() returned.
CloseInTryCatch(t, closeThrows) == FALSE

\* transport.close() called by the server
CloseTransport(cc, t) == [cc EXCEPT ![t] = IF @ < 2 THEN @ + 1 ELSE @]

OncloseHandler_Clears(sess, t) ==
  LET sid == tSessionId[t]
  IN  IF sid # Undefined /\ LRUHas(sess, sid).ret THEN LRUClear(sess) ELSE sess

\* transport.onclose = () => { sid = transport.sessionId;
\*   if (sid && sessions.has(sid)) sessions.delete(sid) }
OncloseHandler(sess, t) ==
  LET sid == tSessionId[t]
  IN  IF sid # Undefined /\ LRUHas(sess, sid).ret THEN LRUDelete(sess, sid).cache ELSE sess

SessionsSet_OffByOne(sess, cc, sid, info, syncClose, closeThrows) ==
  LET r == LRUSet(MAX_SESSIONS + 1, TRUE, sess, sid, info,
                  Len(sess) > 0 /\ CloseInTryCatch(sess[1].value, closeThrows))
      victims == {r.hookCalls[i].value : i \in DOMAIN r.hookCalls}
      gone == {tSessionId[t] : t \in {v \in victims \cap syncClose :
                 \E i \in DOMAIN r.hookCalls :
                   /\ r.hookCalls[i].value = v
                   /\ tSessionId[v] # Undefined
                   /\ MapHas(r.hookCalls[i].seen, tSessionId[v])}}
  IN  [sessions   |-> SelectSeq(r.cache, LAMBDA e : e.key \notin gone),
       closeCalls |-> [t \in Transports |-> IF t \in victims THEN CloseTransport(cc, t)[t]
                                            ELSE cc[t]],
       threw      |-> r.threw]

SessionsSet_NoHook(sess, cc, sid, info, syncClose, closeThrows) ==
  [sessions   |-> LRUSet(MAX_SESSIONS, FALSE, sess, sid, info, FALSE).cache,
   closeCalls |-> cc,
   threw      |-> FALSE]

\* sessions.set(sid, info) with the onEvict hook of the server: the hook calls
\* close() on the evicted session's transport and absorbs what close throws;
\* close() may run the transport's onclose handler before it returns (for the
\* transports in syncClose).
SessionsSet(sess, cc, sid, info, syncClose, closeThrows) ==
  LET r == LRUSet(MAX_SESSIONS, TRUE, sess, sid, info,
                  Len(sess) > 0 /\ CloseInTryCatch(sess[1].value, closeThrows))
      victims == {r.hookCalls[i].value : i \in DOMAIN r.hookCalls}
      gone == {tSessionId[t] : t \in {v \in victims \cap syncClose :
                 \E i \in DOMAIN r.hookCalls :
                   /\ r.hookCalls[i].value = v
                   /\ tSessionId[v] # Undefined
                   /\ MapHas(r.hookCalls[i].seen, tSessionId[v])}}
  IN  [sessions   |-> SelectSeq(r.cache, LAMBDA e : e.key \notin gone),
       closeCalls |-> [t \in Transports |-> IF t \in victims THEN CloseTransport(cc, t)[t]
                                            ELSE cc[t]],
       threw      |-> r.threw]

\* lastActivity is a field of the session object, which lives as long as the
\* Map holds it: the field of an object that left the Map is gone with it.
SessionFields(act, sess) ==
  [t \in Transports |-> IF \E i \in DOMAIN sess : sess[i].value = t THEN act[t] ELSE 0]

TouchSession_Backdates(sess, act, cc, sid, time) ==
  LET g == LRUGet(sess, sid)
  IN  IF g.ret = Undefined
        THEN [sessions |-> g.cache, lastActivity |-> act, closeCalls |-> cc]
        ELSE LET st == SessionsSet(g.cache, cc, sid, g.ret, {}, {})
             IN  [sessions |-> st.sessions, lastActivity |-> [act EXCEPT ![g.ret] = time - 1],
                  closeCalls |-> st.closeCalls]

\* touchSession(sessionId)
TouchSession(sess, act, cc, sid, time) ==
  LET g == LRUGet(sess, sid)
  IN  IF g.ret = Undefined
        THEN [sessions |-> g.cache, lastActivity |-> act, closeCalls |-> cc]
        ELSE LET st == SessionsSet(g.cache, cc, sid, g.ret, {}, {})
             IN  [sessions |-> st.sessions, lastActivity |-> [act EXCEPT ![g.ret] = time],
                  closeCalls |-> st.closeCalls]

CleanupSession_NoClose(sess, cc, sid, syncClose, closeThrows) ==
  [sessions |-> LRUDelete(LRUGet(sess, sid).cache, sid).cache, closeCalls |-> cc,
   threw |-> FALSE]

\* cleanupSession(sessionId); threw: an exception leaves the function (then
\* sessions.delete has not run).
CleanupSession(sess, cc, sid, syncClose, closeThrows) ==
  LET g == LRUGet(sess, sid)
  IN  IF g.ret = Undefined
        THEN [sessions |-> g.cache, closeCalls |-> cc, threw |-> FALSE]
        ELSE LET afterClose == IF g.ret \in syncClose THEN OncloseHandler(g.cache, g.ret)
                               ELSE g.cache
                 threw == CloseInTryCatch(g.ret, closeThrows)
             IN  [sessions |-> IF threw THEN afterClose ELSE LRUDelete(afterClose, sid).cache,
                  closeCalls |-> CloseTransport(cc, g.ret),
                  threw |-> threw]

Lookup_Oldest(sess, header) ==
  IF Truthy(header) /\ Len(sess) > 0 THEN LRUGet(sess, sess[1].key)
  ELSE [cache |-> sess, ret |-> Undefined]

\* const existingSession = sessionId ? sessions.get(sessionId) : undefined
Lookup(sess, header) ==
  IF Truthy(header) THEN LRUGet(sess, header) ELSE [cache |-> sess, ret |-> Undefined]

PostBranch_MissingIsNotFound(header, existing, isInit) ==
  IF Truthy(header) /\ existing # Undefined THEN "reuse"
  ELSE IF ~Truthy(header) /\ isInit THEN "create"
  ELSE "notfound"

\* The if / else-if chain of mcpPostHandler
PostBranch(header, existing, isInit) ==
  IF Truthy(header) /\ existing # Undefined THEN "reuse"
  ELSE IF ~Truthy(header) /\ isInit THEN "create"
  ELSE IF Truthy(header) /\ existing = Undefined THEN "notfound"
  ELSE "badrequest"

GetBranch_MissingIsNotFound(header, existing) ==
  IF existing = Undefined THEN "notfound" ELSE "reuse"

\* The test of mcpGetHandler and mcpDeleteHandler
GetBranch(header, existing) ==
  IF ~Truthy(header) THEN "missing"
  ELSE IF existing = Undefined THEN "notfound"
  ELSE "reuse"

\* History of the requests: the keys of the sessions in the cache, ordered by
\* the last request that was classified as bearing the key (registration
\* included), least recent first.
Pruned(order, sess) == SelectSeq(order, LAMBDA k : MapHas(sess, k))

Requested(order, k, sess) ==
  Pruned(Append(SelectSeq(order, LAMBDA x : x # k), k), sess)

\* ------------------------------------------------------------ the process
\* process.exitCode while the process runs
NotExited == -1

\* After startHttpServer: the socket listens, the cleanup interval is set, no
\* exit timer is pending (exitAt = 0).
Started == [listening |-> TRUE, sweepTimer |-> TRUE, exitAt |-> 0, exitCode |-> NotExited]

ServerIdle ==
  /\ sessions = <<>>
  /\ lastActivity = [t \in Transports |-> 0]
  /\ created = 0
  /\ tSessionId = [t \in Transports |-> Undefined]
  /\ closeCalls = [t \in Transports |-> 0]
  /\ now = 1
  /\ reqs = [r \in Reqs |-> IdleReq]
  /\ lastReq = NoReq
  /\ touchOrder = <<>>
  /\ process = Started
  /\ selfClosed = {}

ServerInit == ServerIdle

\* Every step of the server leaves the other two models alone, and every
\* step but the shutdown and the exit leaves the process as it is.
ServerFrame == UNCHANGED <<process, selfClosed, cacheVars, pathVars>>

\* The process runs and the event loop is ready for the next event.
Alive == lastReq = NoReq /\ process.exitCode = NotExited

\* The same, and the listening socket accepts connections (a request that
\* arrives after server.close() is not served).
Accepting == Alive /\ process.listening

\* The step just run has been observed: the event loop takes the next event.
Observed ==
  /\ lastReq # NoReq
  /\ lastReq' = NoReq
  /\ UNCHANGED <<sessions, lastActivity, created, tSessionId, closeCalls, now, reqs,
               touchOrder, process, selfClosed>>
  /\ UNCHANGED <<cacheVars, pathVars>>

\* The body a middleware (or the router) answered with, as a response record.
ChainResponse(res, message) ==
  [status |-> res.status, code |-> 0, message |-> message, id |-> "-"]

\* A step of the chain that ends the response leaves the server alone.
EndedByChain(method, origin, path, res, message) ==
  /\ lastReq' = [Handled(method, Absent, FALSE, res.stage, ChainResponse(res, message))
                   EXCEPT !.http = Http(method, origin, path, res)]
  /\ UNCHANGED <<sessions, lastActivity, created, tSessionId, closeCalls, now, reqs>>
  /\ touchOrder' = Pruned(touchOrder, sessions')
  /\ ServerFrame

\* The limiter rejects a request on /mcp: 429.
RateLimited(method, origin, path) ==
  /\ Accepting
  /\ LET res == Chain(method, origin, path, TRUE)
       IN  /\ res.stage = "ratelimit"
           /\ EndedByChain(method, origin, path, res,
                           "Too many requests, please try again later")

\* OPTIONS with an origin on an allow-listed path: 204, no next().
Preflight(method, origin, path) ==
  /\ Accepting
  /\ LET res == Chain(method, origin, path, FALSE)
       IN  /\ res.stage = "preflight"
           /\ EndedByChain(method, origin, path, res, "")

\* A request with an origin on a path that is not allow-listed: 403.
CorsForbidden(method, origin, path) ==
  /\ Accepting
  /\ LET res == Chain(method, origin, path, FALSE)
       IN  /\ res.stage = "forbidden"
           /\ EndedByChain(method, origin, path, res, "Cross-origin requests not allowed")

\* The chain passes the request on but no handler is registered for it: the
\* router answers itself (404, or 200 to OPTIONS on a path that has routes).
NoRoute(method, origin, path) ==
  /\ Accepting
  /\ LET res == Chain(method, origin, path, FALSE)
       IN  /\ ~res.ended
           /\ ~Routed(method, path)
           /\ EndedByChain(method, origin, path,
                           [res EXCEPT !.status = IF method = "OPTIONS" /\ path = McpPath
                                                    THEN 200 ELSE 404,
                                       !.ended = TRUE, !.stage = "noroute"],
                           "answered by the router")

\* POST with the key of a live session: touch it and hand the request to its
\* transport (the handler is then suspended in await transport.handleRequest).
PostReuse(r, header, isInit, origin) ==
  /\ Accepting
  /\ Reaches("POST", origin)
  /\ LET g == Lookup(sessions, header)
           touched == TouchSession(g.cache, lastActivity, closeCalls, header, now)
       IN  /\ reqs[r].pc = "idle"
           /\ PostBranch(header, g.ret, isInit) = "reuse"
           /\ sessions' = touched.sessions
           /\ lastActivity' = touched.lastActivity
           /\ closeCalls' = touched.closeCalls
           /\ reqs' = [reqs EXCEPT ![r] = [pc |-> "handling", verb |-> "POST",
                                           transport |-> g.ret, create |-> FALSE]]
           /\ lastReq' = Arrival("POST", origin, header, isInit, "reuse", Pending, g.ret)
           /\ UNCHANGED <<created, tSessionId, now>>
           /\ touchOrder' = Requested(touchOrder, header, sessions')
           /\ ServerFrame

\* POST without a key and with an initialize body: a transport is constructed,
\* getServer() is called and the handler is suspended in await server.connect.
PostCreate(r, header, isInit, origin) ==
  /\ Accepting
  /\ Reaches("POST", origin)
  /\ LET g == Lookup(sessions, header)
       IN  /\ reqs[r].pc = "idle"
           /\ PostBranch(header, g.ret, isInit) = "create"
           /\ created < MaxTransports
           /\ created' = created + 1
           /\ sessions' = g.cache
           /\ reqs' = [reqs EXCEPT ![r] = [pc |-> "connecting", verb |-> "POST",
                                           transport |-> created + 1, create |-> TRUE]]
           /\ lastReq' = Arrival("POST", origin, header, isInit, "create", Pending, created + 1)
           /\ UNCHANGED <<lastActivity, tSessionId, closeCalls, now>>
           /\ touchOrder' = Pruned(touchOrder, sessions')
           /\ ServerFrame

\* The same when getServer() throws: the catch block answers 500 (nothing has
\* been written yet); the transport has been constructed.
PostCreateFails(header, isInit, origin) ==
  /\ Accepting
  /\ Reaches("POST", origin)
  /\ LET g == Lookup(sessions, header)
       IN  /\ PostBranch(header, g.ret, isInit) = "create"
           /\ created < MaxTransports
           /\ created' = created + 1
           /\ sessions' = g.cache
           /\ lastReq' = Arrival("POST", origin, header, isInit, "create", InternalErrorResponse,
                                 created + 1)
           /\ UNCHANGED <<lastActivity, tSessionId, closeCalls, now, reqs>>
           /\ touchOrder' = Pruned(touchOrder, sessions')
           /\ ServerFrame

\* POST with a key that is not in the cache: 404.
PostNotFound(header, isInit, origin) ==
  /\ Accepting
  /\ Reaches("POST", origin)
  /\ LET g == Lookup(sessions, header)
       IN  /\ PostBranch(header, g.ret, isInit) = "notfound"
           /\ sessions' = g.cache
           /\ lastReq' = Arrival("POST", origin, header, isInit, "notfound", NotFoundResponse, 0)
           /\ UNCHANGED <<lastActivity, created, tSessionId, closeCalls, now, reqs>>
           /\ touchOrder' = Pruned(touchOrder, sessions')
           /\ ServerFrame

\* POST without a key and without an initialize body: 400.
PostBadRequest(header, isInit, origin) ==
  /\ Accepting
  /\ Reaches("POST", origin)
  /\ LET g == Lookup(sessions, header)
       IN  /\ PostBranch(header, g.ret, isInit) = "badrequest"
           /\ sessions' = g.cache
           /\ lastReq' = Arrival("POST", origin, header, isInit, "badrequest", BadRequestResponse, 0)
           /\ UNCHANGED <<lastActivity, created, tSessionId, closeCalls, now, reqs>>
           /\ touchOrder' = Pruned(touchOrder, sessions')
           /\ ServerFrame

ConnectDone_RegistersEarly(r, ok) ==
  /\ Alive
  /\ reqs[r].pc = "connecting"
  /\ reqs' = [reqs EXCEPT ![r] = IF ok THEN [@ EXCEPT !.pc = "handling"] ELSE IdleReq]
  /\ sessions' = SessionsSet(sessions, closeCalls, randomUUID(reqs[r].transport),
                             reqs[r].transport, {}, {}).sessions
  /\ lastReq' = [HandledBy("POST", Absent, TRUE, "connect",
                          IF ok THEN Pending ELSE InternalErrorResponse,
                          reqs[r].transport)
                 EXCEPT !.http = Resumed(reqs[r].verb)]
  /\ UNCHANGED <<lastActivity, created, tSessionId, closeCalls, now>>
  /\ touchOrder' = Pruned(touchOrder, sessions')
  /\ ServerFrame

\* await server.connect(transport) settles: on success the handler calls
\* transport.handleRequest and is suspended in its await; on rejection the
\* catch block answers 500.
ConnectDone(r, ok) ==
  /\ Alive
  /\ reqs[r].pc = "connecting"
  /\ reqs' = [reqs EXCEPT ![r] = IF ok THEN [@ EXCEPT !.pc = "handling"] ELSE IdleReq]
  /\ lastReq' = [HandledBy("POST", Absent, TRUE, "connect",
                          IF ok THEN Pending ELSE InternalErrorResponse,
                          reqs[r].transport)
                 EXCEPT !.http = Resumed(reqs[r].verb)]
  /\ UNCHANGED <<sessions, lastActivity, created, tSessionId, closeCalls, now>>
  /\ touchOrder' = Pruned(touchOrder, sessions')
  /\ ServerFrame

SessionInitialized_SharedVariable(r, syncClose, closeThrows) ==
  /\ Alive
  /\ LET t   == reqs[r].transport
           sid == randomUUID(t)
           st  == SessionsSet(sessions, closeCalls, sid, created, syncClose, closeThrows)
       IN  /\ reqs[r].pc = "handling"
           /\ reqs[r].create
           /\ tSessionId[t] = Undefined
           /\ tSessionId' = [tSessionId EXCEPT ![t] = sid]
           /\ sessions' = st.sessions
           /\ closeCalls' = st.closeCalls
           /\ lastActivity' = SessionFields([lastActivity EXCEPT ![t] = now], st.sessions)
           /\ lastReq' = [HandledBy("POST", Absent, TRUE,
                                    IF st.threw THEN "threw" ELSE "initialized", Pending, t)
                 EXCEPT !.http = Resumed(reqs[r].verb), !.closeThrows = closeThrows,
                        !.syncClose = syncClose]
           /\ UNCHANGED <<created, now, reqs>>
           /\ touchOrder' = Requested(touchOrder, sid, sessions')
           /\ ServerFrame

\* While it handles the initialize request the transport generates its session
\* id and calls onsessioninitialized, which registers the session.
SessionInitialized(r, syncClose, closeThrows) ==
  /\ Alive
  /\ LET t   == reqs[r].transport
           sid == randomUUID(t)
           st  == SessionsSet(sessions, closeCalls, sid, t, syncClose, closeThrows)
       IN  /\ reqs[r].pc = "handling"
           /\ reqs[r].create
           /\ tSessionId[t] = Undefined
           /\ tSessionId' = [tSessionId EXCEPT ![t] = sid]
           /\ sessions' = st.sessions
           /\ closeCalls' = st.closeCalls
           /\ lastActivity' = SessionFields([lastActivity EXCEPT ![t] = now], st.sessions)
           /\ lastReq' = [HandledBy("POST", Absent, TRUE,
                                    IF st.threw THEN "threw" ELSE "initialized", Pending, t)
                 EXCEPT !.http = Resumed(reqs[r].verb), !.closeThrows = closeThrows,
                        !.syncClose = syncClose]
           /\ UNCHANGED <<created, now, reqs>>
           /\ touchOrder' = Requested(touchOrder, sid, sessions')
           /\ ServerFrame

\* catch (error) { if (!res.headersSent) res.status(500).json(...) } of
\* mcpPostHandler and of the global error handler
InternalErrorUnlessSent(headersSent) ==
  IF headersSent THEN EngineResponse ELSE InternalErrorResponse

\* The catch block of mcpDeleteHandler
TerminationErrorUnlessSent(headersSent) ==
  IF headersSent THEN EngineResponse ELSE TerminationErrorResponse

\* What the client gets when await transport.handleRequest rejects.  POST and
\* DELETE catch the rejection.  mcpGetHandler has no try/catch: the promise
\* the handler returned rejects, and the global error handler answers only
\* when the router forwards rejected handler promises to it (forwarded);
\* otherwise nothing is written.
RejectionResponse(verb, headersSent, forwarded) ==
  CASE verb = "POST"   -> InternalErrorUnlessSent(headersSent)
    [] verb = "DELETE" -> TerminationErrorUnlessSent(headersSent)
    [] OTHER           -> IF forwarded THEN InternalErrorUnlessSent(headersSent)
                          ELSE IF headersSent THEN EngineResponse ELSE Unanswered

\* await transport.handleRequest settles.  It resolves (the transport has
\* written the response), or rejects before or after the response headers
\* were sent.
HandleDone(r, outcome, forwarded) ==
  /\ Alive
  /\ reqs[r].pc = "handling"
  /\ reqs' = [reqs EXCEPT ![r] = IdleReq]
  /\ lastReq' = [HandledBy(reqs[r].verb,
                          IF reqs[r].create THEN Absent ELSE randomUUID(reqs[r].transport),
                          reqs[r].create, outcome,
                          IF outcome = "resolved" THEN EngineResponse
                          ELSE RejectionResponse(reqs[r].verb,
                                                 outcome = "rejectedAfterHeaders", forwarded),
                          reqs[r].transport)
                 EXCEPT !.http = Resumed(reqs[r].verb)]
  /\ UNCHANGED <<sessions, lastActivity, created, tSessionId, closeCalls, now>>
  /\ touchOrder' = Pruned(touchOrder, sessions')
  /\ ServerFrame

GetReuse_OncloseInBetween(r, header, origin) ==
  /\ Accepting
  /\ Reaches("GET", origin)
  /\ LET g == Lookup(sessions, header)
           touched == TouchSession(OncloseHandler(g.cache, g.ret), lastActivity, closeCalls,
                                   header, now)
       IN  /\ reqs[r].pc = "idle"
           /\ GetBranch(header, g.ret) = "reuse"
           /\ sessions' = touched.sessions
           /\ lastActivity' = touched.lastActivity
           /\ closeCalls' = touched.closeCalls
           /\ reqs' = [reqs EXCEPT ![r] = [pc |-> "handling", verb |-> "GET",
                                           transport |-> g.ret, create |-> FALSE]]
           /\ lastReq' = Arrival("GET", origin, header, FALSE, "reuse", Pending, g.ret)
           /\ UNCHANGED <<created, tSessionId, now>>
           /\ touchOrder' = Requested(touchOrder, header, sessions')
           /\ ServerFrame

\* GET with the key of a live session: touch it, hand the request over.
GetReuse(r, header, origin) ==
  /\ Accepting
  /\ Reaches("GET", origin)
  /\ LET g == Lookup(sessions, header)
           touched == TouchSession(g.cache, lastActivity, closeCalls, header, now)
       IN  /\ reqs[r].pc = "idle"
           /\ GetBranch(header, g.ret) = "reuse"
           /\ sessions' = touched.sessions
           /\ lastActivity' = touched.lastActivity
           /\ closeCalls' = touched.closeCalls
           /\ reqs' = [reqs EXCEPT ![r] = [pc |-> "handling", verb |-> "GET",
                                           transport |-> g.ret, create |-> FALSE]]
           /\ lastReq' = Arrival("GET", origin, header, FALSE, "reuse", Pending, g.ret)
           /\ UNCHANGED <<created, tSessionId, now>>
           /\ touchOrder' = Requested(touchOrder, header, sessions')
           /\ ServerFrame

\* GET without a key (400) or with a key that is not in the cache (404).
GetRejected(header, origin) ==
  /\ Accepting
  /\ Reaches("GET", origin)
  /\ LET g == Lookup(sessions, header)
           branch == GetBranch(header, g.ret)
       IN  /\ branch # "reuse"
           /\ sessions' = g.cache
           /\ lastReq' = Arrival("GET", origin, header, FALSE, branch,
                                 IF branch = "notfound" THEN NotFoundResponse
                                 ELSE MissingIdResponse, 0)
           /\ UNCHANGED <<lastActivity, created, tSessionId, closeCalls, now, reqs>>
           /\ touchOrder' = Pruned(touchOrder, sessions')
           /\ ServerFrame

\* DELETE with the key of a live session: sessions.get, then the request is
\* handed to the transport (touchSession is not called).
DeleteReuse(r, header, origin) ==
  /\ Accepting
  /\ Reaches("DELETE", origin)
  /\ LET g == Lookup(sessions, header)
       IN  /\ reqs[r].pc = "idle"
           /\ GetBranch(header, g.ret) = "reuse"
           /\ sessions' = g.cache
           /\ reqs' = [reqs EXCEPT ![r] = [pc |-> "handling", verb |-> "DELETE",
                                           transport |-> g.ret, create |-> FALSE]]
           /\ lastReq' = Arrival("DELETE", origin, header, FALSE, "reuse", Pending, g.ret)
           /\ UNCHANGED <<lastActivity, created, tSessionId, closeCalls, now>>
           /\ touchOrder' = Requested(touchOrder, header, sessions')
           /\ ServerFrame

DeleteRejected(header, origin) ==
  /\ Accepting
  /\ Reaches("DELETE", origin)
  /\ LET g == Lookup(sessions, header)
           branch == GetBranch(header, g.ret)
       IN  /\ branch # "reuse"
           /\ sessions' = g.cache
           /\ lastReq' = Arrival("DELETE", origin, header, FALSE, branch,
                                 IF branch = "notfound" THEN NotFoundResponse
                                 ELSE MissingIdResponse, 0)
           /\ UNCHANGED <<lastActivity, created, tSessionId, closeCalls, now, reqs>>
           /\ touchOrder' = Pruned(touchOrder, sessions')
           /\ ServerFrame

\* The transport signals its closure: its onclose handler runs.
TransportOnclose(t) ==
  /\ Alive
  /\ t <= created
  /\ sessions' = OncloseHandler(sessions, t)
  /\ lastActivity' = SessionFields(lastActivity, sessions')
  /\ lastReq' = HandledBy("ONCLOSE", Absent, FALSE, "onclose", Pending, t)
  /\ selfClosed' = IF sessions' # sessions THEN selfClosed \cup {t} ELSE selfClosed
  /\ UNCHANGED <<created, tSessionId, closeCalls, now, reqs>>
  /\ touchOrder' = Pruned(touchOrder, sessions')
  /\ UNCHANGED <<process, cacheVars, pathVars>>

IteratorNext_ByIndex(old, new, i) == i + 1

\* The Map iterator behind sessions.entries() after the i-th entry of old was
\* visited and the Map became new: it stands after the entries up to i that
\* are still in the Map (an entry removed behind the iterator moves it back).
IteratorNext(old, new, i) ==
  1 + Cardinality({j \in 1..i : MapHas(new, old[j].key)})

\* The body of the setInterval callback: for (const [sessionId, session] of
\* sessions.entries()) if (now - session.lastActivity > timeout) cleanupSession
RECURSIVE SweepLoop_ClosesAtTimeout(_, _, _, _, _, _)
SweepLoop_ClosesAtTimeout(sess, cc, i, visited, syncClose, closeThrows) ==
  IF i > Len(sess)
    THEN [sessions |-> sess, closeCalls |-> cc, visited |-> visited, threw |-> FALSE]
    ELSE LET entry == LRUEntries(sess)[i]
             seen == Append(visited, entry[1])
         IN  IF now - lastActivity[entry[2]] >= SESSION_IDLE_TIMEOUT_MS
               THEN LET c == CleanupSession(sess, cc, entry[1], syncClose, closeThrows)
                    IN  SweepLoop_ClosesAtTimeout(c.sessions, c.closeCalls,
                                                  IteratorNext(sess, c.sessions, i), seen,
                                                  syncClose, closeThrows)
               ELSE SweepLoop_ClosesAtTimeout(sess, cc, i + 1, seen, syncClose, closeThrows)

RECURSIVE SweepLoop_SparesBusy(_, _, _, _, _, _)
SweepLoop_SparesBusy(sess, cc, i, visited, syncClose, closeThrows) ==
  IF i > Len(sess)
    THEN [sessions |-> sess, closeCalls |-> cc, visited |-> visited, threw |-> FALSE]
    ELSE LET entry == LRUEntries(sess)[i]
             seen == Append(visited, entry[1])
             busy == \E r \in DOMAIN reqs : reqs[r].pc # "idle" /\ reqs[r].transport = entry[2]
         IN  IF now - lastActivity[entry[2]] > SESSION_IDLE_TIMEOUT_MS /\ ~busy
               THEN LET c == CleanupSession(sess, cc, entry[1], syncClose, closeThrows)
                    IN  SweepLoop_SparesBusy(c.sessions, c.closeCalls,
                                             IteratorNext(sess, c.sessions, i), seen,
                                             syncClose, closeThrows)
               ELSE SweepLoop_SparesBusy(sess, cc, i + 1, seen, syncClose, closeThrows)

\* The result carries the keys the loop body ran for, in order, and whether
\* an exception left the loop.
RECURSIVE SweepLoop(_, _, _, _, _, _)
SweepLoop(sess, cc, i, visited, syncClose, closeThrows) ==
  IF i > Len(sess)
    THEN [sessions |-> sess, closeCalls |-> cc, visited |-> visited, threw |-> FALSE]
    ELSE LET entry == LRUEntries(sess)[i]
             seen == Append(visited, entry[1])
         IN  IF now - lastActivity[entry[2]] > SESSION_IDLE_TIMEOUT_MS
               THEN LET c == CleanupSession(sess, cc, entry[1], syncClose, closeThrows)
                    IN  IF c.threw
                          THEN [sessions |-> c.sessions, closeCalls |-> c.closeCalls,
                                visited |-> seen, threw |-> TRUE]
                          ELSE SweepLoop(c.sessions, c.closeCalls,
                                         IteratorNext(sess, c.sessions, i), seen,
                                         syncClose, closeThrows)
               ELSE SweepLoop(sess, cc, i + 1, seen, syncClose, closeThrows)

\* A tick of the cleanup interval.
Sweep(syncClose, closeThrows) ==
  /\ Alive /\ process.sweepTimer
  /\ LET st == SweepLoop(sessions, closeCalls, 1, <<>>, syncClose, closeThrows)
       IN  /\ sessions' = st.sessions
           /\ closeCalls' = st.closeCalls
           /\ lastActivity' = SessionFields(lastActivity, st.sessions)
           /\ lastReq' = [Handled("SWEEP", Absent, FALSE,
                                  IF st.threw THEN "threw" ELSE "sweep", Pending)
                            EXCEPT !.closeThrows = closeThrows, !.syncClose = syncClose,
                                   !.visited = st.visited]
           /\ UNCHANGED <<created, tSessionId, now, reqs>>
           /\ touchOrder' = Pruned(touchOrder, sessions')
           /\ ServerFrame

\* The for loop of shutdown over sessions.entries(): close() on the transport
\* of every entry, inside try/catch.  The result carries the keys the body
\* ran for and whether an exception left the loop.
RECURSIVE ShutdownLoop(_, _, _, _, _, _)
ShutdownLoop(sess, cc, i, visited, syncClose, closeThrows) ==
  IF i > Len(sess)
    THEN [sessions |-> sess, closeCalls |-> cc, visited |-> visited, threw |-> FALSE]
    ELSE LET entry == LRUEntries(sess)[i]
             t == entry[2]
             afterClose == IF t \in syncClose THEN OncloseHandler(sess, t) ELSE sess
             seen == Append(visited, entry[1])
         IN  IF CloseInTryCatch(t, closeThrows)
               THEN [sessions |-> afterClose, closeCalls |-> CloseTransport(cc, t),
                     visited |-> seen, threw |-> TRUE]
               ELSE ShutdownLoop(afterClose, CloseTransport(cc, t),
                                 IteratorNext(sess, afterClose, i), seen,
                                 syncClose, closeThrows)

\* setTimeout(() => process.exit(0), 5000): the time the earliest pending
\* exit timer fires.
ExitTimer(exitAt, time) ==
  IF exitAt # 0 /\ exitAt <= time + SHUTDOWN_GRACE_MS THEN exitAt
  ELSE time + SHUTDOWN_GRACE_MS

ShutdownHandler_KeepsSweeping(sess, cc, proc, time, syncClose, closeThrows) ==
  LET loop == ShutdownLoop(sess, cc, 1, <<>>, syncClose, closeThrows)
  IN  [sessions   |-> LRUClear(loop.sessions),
       closeCalls |-> loop.closeCalls,
       visited    |-> loop.visited,
       threw      |-> FALSE,
       process    |-> [proc EXCEPT !.listening = FALSE,
                                   !.exitAt = ExitTimer(proc.exitAt, time)],
       steps      |-> <<"server.close">>
                        \o [i \in 1..Len(loop.visited) |-> "transport.close"]
                        \o <<"sessions.clear", "setTimeout">>]

ShutdownHandler_NoClear(sess, cc, proc, time, syncClose, closeThrows) ==
  LET loop == ShutdownLoop(sess, cc, 1, <<>>, syncClose, closeThrows)
  IN  [sessions   |-> loop.sessions,
       closeCalls |-> loop.closeCalls,
       visited    |-> loop.visited,
       threw      |-> FALSE,
       process    |-> [proc EXCEPT !.listening = FALSE, !.sweepTimer = FALSE,
                                   !.exitAt = ExitTimer(proc.exitAt, time)],
       steps      |-> <<"server.close", "clearInterval">>
                        \o [i \in 1..Len(loop.visited) |-> "transport.close"]
                        \o <<"setTimeout">>]

\* shutdown(signal): server.close(), clearInterval(cleanupInterval), close
\* every session's transport, sessions.clear(), setTimeout(exit).  steps is
\* the sequence of the calls made; when an exception leaves the loop the
\* statements after it do not run.
ShutdownHandler(sess, cc, proc, time, syncClose, closeThrows) ==
  LET loop == ShutdownLoop(sess, cc, 1, <<>>, syncClose, closeThrows)
      begun == <<"server.close", "clearInterval">>
                 \o [i \in 1..Len(loop.visited) |-> "transport.close"]
      stopped == [proc EXCEPT !.listening = FALSE, !.sweepTimer = FALSE]
  IN  IF loop.threw
        THEN [sessions |-> loop.sessions, closeCalls |-> loop.closeCalls,
              visited |-> loop.visited, threw |-> TRUE,
              process |-> stopped, steps |-> begun]
        ELSE [sessions   |-> LRUClear(loop.sessions),
              closeCalls |-> loop.closeCalls,
              visited    |-> loop.visited,
              threw      |-> FALSE,
              process    |-> [stopped EXCEPT !.exitAt = ExitTimer(proc.exitAt, time)],
              steps      |-> begun \o <<"sessions.clear", "setTimeout">>]

\* Time passes.  The clock stops at MaxTime, or when the pending exit timer
\* is due if that is later.
Tick ==
  /\ Alive
  /\ now < MaxTime \/ (process.exitAt # 0 /\ now < process.exitAt)
  /\ now' = now + 1
  /\ lastReq' = NoReq
  /\ UNCHANGED <<sessions, lastActivity, created, tSessionId, closeCalls, reqs>>
  /\ touchOrder' = Pruned(touchOrder, sessions')
  /\ ServerFrame

\* SIGINT or SIGTERM arrives: the shutdown handler runs.
Shutdown(syncClose, closeThrows) ==
  /\ Alive
  /\ LET st == ShutdownHandler(sessions, closeCalls, process, now, syncClose, closeThrows)
       IN  /\ sessions' = st.sessions
           /\ closeCalls' = st.closeCalls
           /\ process' = st.process
           /\ lastActivity' = SessionFields(lastActivity, st.sessions)
           /\ lastReq' = [Handled("SHUTDOWN", Absent, FALSE,
                                  IF st.threw THEN "threw" ELSE "shutdown", Pending)
                            EXCEPT !.closeThrows = closeThrows, !.syncClose = syncClose,
                                   !.visited = st.visited, !.steps = st.steps]
           /\ UNCHANGED <<created, tSessionId, now, reqs>>
           /\ touchOrder' = Pruned(touchOrder, sessions')
           /\ UNCHANGED <<selfClosed, cacheVars, pathVars>>

\* The exit timer fires: process.exit(0).
Exit ==
  /\ Alive
  /\ process.exitAt # 0
  /\ now >= process.exitAt
  /\ process' = [process EXCEPT !.exitCode = 0]
  /\ lastReq' = Handled("EXIT", Absent, FALSE, "exit", Pending)
  /\ UNCHANGED <<sessions, lastActivity, created, tSessionId, closeCalls, now, reqs>>
  /\ touchOrder' = Pruned(touchOrder, sessions')
  /\ UNCHANGED <<selfClosed, cacheVars, pathVars>>

ServerNext ==
  \/ \E r \in Reqs, h \in HeaderValues, b \in BOOLEAN, o \in OriginValues : PostReuse(r, h, b, o)
  \/ \E r \in Reqs, h \in HeaderValues, b \in BOOLEAN, o \in OriginValues : PostCreate(r, h, b, o)
  \/ \E h \in HeaderValues, b \in BOOLEAN, o \in OriginValues : PostCreateFails(h, b, o)
  \/ \E h \in HeaderValues, b \in BOOLEAN, o \in OriginValues : PostNotFound(h, b, o)
  \/ \E h \in HeaderValues, b \in BOOLEAN, o \in OriginValues : PostBadRequest(h, b, o)
  \/ \E r \in Reqs, ok \in BOOLEAN : ConnectDone(r, ok)
  \/ \E r \in Reqs, sc \in {{}, Transports}, th \in {{}, Transports} :
       SessionInitialized(r, sc, th)
  \/ \E r \in Reqs, o \in {"resolved", "rejectedBeforeHeaders", "rejectedAfterHeaders"},
          f \in BOOLEAN : HandleDone(r, o, f)
  \/ \E r \in Reqs, h \in HeaderValues, o \in OriginValues : GetReuse(r, h, o)
  \/ \E h \in HeaderValues, o \in OriginValues : GetRejected(h, o)
  \/ \E r \in Reqs, h \in HeaderValues, o \in OriginValues : DeleteReuse(r, h, o)
  \/ \E h \in HeaderValues, o \in OriginValues : DeleteRejected(h, o)
  \/ \E t \in Transports : TransportOnclose(t)
  \/ \E sc \in {{}, Transports}, th \in {{}, Transports} : Sweep(sc, th)
  \/ \E m \in Methods, o \in OriginValues, p \in HttpPaths : RateLimited(m, o, p)
  \/ \E m \in Methods, o \in OriginValues, p \in HttpPaths : Preflight(m, o, p)
  \/ \E m \in Methods, o \in OriginValues, p \in HttpPaths : CorsForbidden(m, o, p)
  \/ \E m \in Methods, o \in OriginValues, p \in HttpPaths : NoRoute(m, o, p)
  \/ \E sc \in {{}, Transports}, th \in {{}, Transports} : Shutdown(sc, th)
  \/ Exit
  \/ Tick
  \/ Observed

\* --------------------------------------------------------- specifications
CacheModelInit == CacheInit /\ PathIdle /\ ServerIdle

SpecCache == CacheModelInit /\ [][CacheNext]_vars

PathModelInit == PathInit /\ CacheIdle /\ ServerIdle

SpecPath == PathModelInit /\ [][PathNext]_vars

Init == ServerInit /\ CacheIdle /\ PathIdle

Next == ServerNext

Spec == Init /\ [][Next]_vars

\* The clock advances and a due timer fires however many other events keep
\* arriving; an observed step is followed by the next event.
FairSpec == Spec /\ SF_vars(Tick) /\ SF_vars(Exit) /\ WF_vars(Observed)

\* ------------------------------------------- concurrent request handlers
\* The server with MaxInFlight handlers suspended at a time.  The inputs that
\* only change what the client is answered (the Origin header, the outcome of
\* the dispatch, close() throwing inside try/catch) are fixed, and the
\* requests that are answered without touching a session are left out: the
\* sessions, transports and in-flight handlers go through the same states.
ConcurrentReqs == 1..MaxInFlight

ConcurrentInit ==
  /\ sessions = <<>>
  /\ lastActivity = [t \in Transports |-> 0]
  /\ created = 0
  /\ tSessionId = [t \in Transports |-> Undefined]
  /\ closeCalls = [t \in Transports |-> 0]
  /\ now = 1
  /\ reqs = [r \in ConcurrentReqs |-> IdleReq]
  /\ lastReq = NoReq
  /\ touchOrder = <<>>
  /\ process = Started
  /\ selfClosed = {}
  /\ CacheIdle
  /\ PathIdle

\* A request that arrives is handled by the first handler slot that is free
\* (the slots are interchangeable).
FreeSlot(r) ==
  /\ reqs[r].pc = "idle"
  /\ \A q \in ConcurrentReqs : q < r => reqs[q].pc # "idle"

ConcurrentNext ==
  \/ \E r \in ConcurrentReqs, h \in HeaderValues, b \in BOOLEAN :
       FreeSlot(r) /\ PostReuse(r, h, b, OriginAbsent)
  \/ \E r \in ConcurrentReqs, h \in HeaderValues, b \in BOOLEAN :
       FreeSlot(r) /\ PostCreate(r, h, b, OriginAbsent)
  \/ \E r \in ConcurrentReqs, ok \in BOOLEAN : ConnectDone(r, ok)
  \/ \E r \in ConcurrentReqs, sc \in {{}, Transports} : SessionInitialized(r, sc, {})
  \/ \E r \in ConcurrentReqs : HandleDone(r, "resolved", TRUE)
  \/ \E r \in ConcurrentReqs, h \in HeaderValues : FreeSlot(r) /\ GetReuse(r, h, OriginAbsent)
  \/ \E r \in ConcurrentReqs, h \in HeaderValues : FreeSlot(r) /\ DeleteReuse(r, h, OriginAbsent)
  \/ \E t \in Transports : TransportOnclose(t)
  \/ \E sc \in {{}, Transports} : Sweep(sc, {})
  \/ \E sc \in {{}, Transports} : Shutdown(sc, {})
  \/ Exit
  \/ Tick
  \/ Observed

SpecConcurrent == ConcurrentInit /\ [][ConcurrentNext]_vars

\* ------------------------------------------------ properties of LRUCache
PreKeys == KeysOf(lastCall.pre)
PostKeys == KeysOf(cache)

\* The keys of S are in the same relative order, with the same values, in m1 and m2.
SameOrderAndValues(m1, m2, S) ==
  \A a \in S : /\ MapHas(m1, a) /\ MapHas(m2, a)
               /\ MapGet(m1, a) = MapGet(m2, a)
               /\ \A b \in S : (MapIndex(m1, a) < MapIndex(m1, b))
                                 <=> (MapIndex(m2, a) < MapIndex(m2, b))

\* The last call was a set of a new key into a full cache.
Overflowed ==
  /\ lastCall.op = "set"
  /\ lastCall.key \notin PreKeys
  /\ Len(lastCall.pre) = maxSize

\* C1: with maxSize N >= 1 the size never exceeds N (and no key is held twice);
\* a set of an absent key into a full cache removes exactly one entry, the key
\* whose last set or successful get is the oldest.
C1_SizeBoundedLruVictim ==
  /\ Len(cache) <= maxSize
  /\ Cardinality(PostKeys) = Len(cache)
  /\ Overflowed =>
       /\ Cardinality(PreKeys \ PostKeys) = 1
       /\ PreKeys \ PostKeys = {lastCall.preRecency[1]}
       /\ SameOrderAndValues(lastCall.pre, cache, PreKeys \ {lastCall.preRecency[1]})

C1_Witness ==
  /\ Overflowed
  /\ maxSize = 2
  /\ lastCall.pre[1].key # lastCall.preRecency[2]
  /\ lastCall.preWatch.key # 0

C3_HasIsPure ==
  /\ shadow = cache
  /\ lastCall.hookCalls = lastCall.shadowHookCalls
  /\ lastCall.op \in {"get", "delete", "entries", "size"} => lastCall.ret = lastCall.shadowRet
  /\ lastCall.op = "has" =>
       /\ cache = lastCall.pre
       /\ lastCall.ret = (lastCall.key \in PreKeys)
       /\ lastCall.hookCalls = <<>>

C3_Witness ==
  /\ lastCall.op = "has"
  /\ Len(lastCall.pre) >= 2
  /\ lastCall.pre[1].key = lastCall.key
  /\ Len(lastCall.pre) = maxSize

\* C4: set of a present key replaces the value, makes the key the most recently
\* used, keeps the size and every other entry, and never calls the eviction
\* hook, also when the cache is full.
C4_UpdateNeverEvicts ==
  (lastCall.op = "set" /\ lastCall.key \in PreKeys) =>
    /\ Len(cache) = Len(lastCall.pre)
    /\ PostKeys = PreKeys
    /\ cache[Len(cache)] = MapEntry(lastCall.key, lastCall.value)
    /\ SameOrderAndValues(lastCall.pre, cache, PreKeys \ {lastCall.key})
    /\ lastCall.hookCalls = <<>>
    /\ ~lastCall.threw

C4_Witness ==
  /\ lastCall.op = "set"
  /\ lastCall.key \in PreKeys
  /\ hasOnEvict
  /\ Len(lastCall.pre) = maxSize
  /\ maxSize >= 2
  /\ lastCall.pre[1].key = lastCall.key
  /\ lastCall.pre[1].value # lastCall.value

C6_DeleteRemovesOnlyTheKey ==
  lastCall.op = "delete" =>
    /\ lastCall.ret = (lastCall.key \in PreKeys)
    /\ PostKeys = PreKeys \ {lastCall.key}
    /\ Len(cache) = Cardinality(PostKeys)
    /\ SameOrderAndValues(lastCall.pre, cache, PreKeys \ {lastCall.key})
    /\ lastCall.key \notin PreKeys => cache = lastCall.pre
    /\ lastCall.hookCalls = <<>>
    /\ ~lastCall.threw

C6_Witness ==
  /\ lastCall.op = "delete"
  /\ lastCall.ret = TRUE
  /\ Len(lastCall.pre) = 3
  /\ lastCall.pre[2].key = lastCall.key

\* C7: entries yields every cached pair once, least recently accessed first (an
\* access is a set or a successful get), and the first pair is the entry the
\* next overflow evicts.
C7_EntriesOldestFirst ==
  /\ lastCall.op = "entries" =>
       /\ Len(lastCall.ret) = Len(cache)
       /\ Len(recency) = Len(cache)
       /\ \A i \in DOMAIN lastCall.ret :
            lastCall.ret[i] = <<recency[i], MapGet(cache, recency[i])>>
  /\ Overflowed => PreKeys \ PostKeys = {LRUEntries(lastCall.pre)[1][1]}

C7_Witness ==
  /\ lastCall.op = "entries"
  /\ Len(lastCall.ret) = 3
  /\ lastCall.preWatch.key = lastCall.ret[3][1]

\* ------------------------------------------- properties of the path matcher
\* C8: matchesAllowedPathBoundary(requestPath, allowedPath) holds exactly when
\* requestPath begins with all of allowedPath and either ends there, or
\* allowedPath ends in "/", or the next character of requestPath is "/"; so
\* "/mcp-admin" does not match "/mcp" and "/a" does not match "/a/".
\* isCorsAllowedPath(p) holds exactly when p is "/mcp" or begins with "/mcp/".
C8_PathBoundaryMatch ==
  LET n == Len(allowedPath)
      begins == /\ Len(requestPath) >= n
                /\ \A i \in 1..n : requestPath[i] = allowedPath[i]
      boundary == \/ Len(requestPath) = n
                  \/ (n > 0 /\ allowedPath[n] = "/")
                  \/ (Len(requestPath) > n /\ requestPath[n + 1] = "/")
  IN  pathDone =>
        /\ matched <=> (begins /\ boundary)
        /\ corsAllowed <=>
              /\ Len(requestPath) >= Len(McpPath)
              /\ \A i \in DOMAIN McpPath : requestPath[i] = McpPath[i]
              /\ \/ Len(requestPath) = Len(McpPath)
                 \/ requestPath[Len(McpPath) + 1] = "/"

C8_Witness ==
  /\ pathDone
  /\ requestPath = <<"/", "m", "c", "p", "-", "a", "d", "m", "i", "n">>
  /\ allowedPath = McpPath
  /\ ~matched
  /\ ~corsAllowed

\* --------------------------------------- properties of the POST handler
\* The step just run was the synchronous part of mcpPostHandler on an arriving
\* request (the classification and what its branch does before the first await).
PostArrived ==
  /\ lastReq.verb = "POST"
  /\ lastReq.branch \in {"reuse", "create", "notfound", "badrequest"}

\* The header of the request just classified names no session of the cache.
HeaderUnresolved == ~MapHas(lastReq.preSessions, lastReq.header)

\* C9: a POST whose mcp-session-id header is present but names no session of
\* the cache is answered 404 "Session not found" whatever its body is; no
\* transport is constructed, no session is registered, and the contents and
\* the recency order of the cache are as before.
C9_UnknownKeyIsNotFound ==
  (PostArrived /\ lastReq.header # Absent /\ HeaderUnresolved) =>
    /\ lastReq.response = NotFoundResponse
    /\ created = lastReq.preCreated
    /\ sessions = lastReq.preSessions

\* C10: a POST without an mcp-session-id header whose body is not an
\* initialize request is answered 400 with code -32600 and id null; no
\* transport is constructed and the cache, the sessions' timestamps and their
\* transports are as before.
C10_NoKeyNoInitIsBadRequest ==
  (PostArrived /\ lastReq.header = Absent /\ ~lastReq.isInit) =>
    /\ lastReq.response.status = 400
    /\ lastReq.response.code = -32600
    /\ lastReq.response.id = "null"
    /\ lastReq.response = BadRequestResponse
    /\ created = lastReq.preCreated
    /\ sessions = lastReq.preSessions
    /\ lastActivity = lastReq.preActivity
    /\ closeCalls = lastReq.preCloseCalls

C10_Witness ==
  /\ PostArrived
  /\ lastReq.header = Absent
  /\ ~lastReq.isInit
  /\ lastReq.response.status = 400
  /\ Len(lastReq.preSessions) = MAX_SESSIONS
  /\ lastReq.preCreated < MaxTransports

\* --------------------------------------- properties of session creation
\* The transports of the sessions in a cache
EnginesOf(sess) == {sess[i].value : i \in DOMAIN sess}

\* The step just run belongs to a POST that took the create branch, and is not
\* the onsessioninitialized callback.
CreateStepBeforeConfirmation ==
  /\ lastReq.verb = "POST"
  /\ \/ lastReq.branch \in {"create", "connect"}
     \/ /\ lastReq.isInit
        /\ lastReq.branch \in {"resolved", "rejectedBeforeHeaders", "rejectedAfterHeaders"}

\* The create request just failed: getServer or server.connect threw, or
\* handleRequest rejected, and the transport never confirmed its session.
HandshakeFailed ==
  /\ CreateStepBeforeConfirmation
  /\ \/ lastReq.response = InternalErrorResponse
     \/ lastReq.branch \in {"rejectedBeforeHeaders", "rejectedAfterHeaders"}
  /\ tSessionId[lastReq.engine] = Undefined

\* C11: a POST without a key and with an initialize body constructs a
\* transport, and the transport is in the cache only once its
\* onsessioninitialized callback has run, under the id it generated; every
\* other step of the create branch, a failing getServer, connect or
\* handleRequest included, adds no entry, evicts and closes no session and
\* leaves the cache and the timestamps as they were.
C11_RegisteredOnlyOnConfirmation ==
  /\ \A i \in DOMAIN sessions :
       /\ tSessionId[sessions[i].value] # Undefined
       /\ tSessionId[sessions[i].value] = sessions[i].key
  /\ (PostArrived /\ lastReq.branch = "create") =>
       /\ ~Truthy(lastReq.header) /\ lastReq.isInit
       /\ created = lastReq.preCreated + 1
       /\ lastReq.engine = created
       /\ lastReq.engine \notin EnginesOf(sessions)
  /\ CreateStepBeforeConfirmation =>
       /\ sessions = lastReq.preSessions
       /\ closeCalls = lastReq.preCloseCalls
       /\ lastActivity = lastReq.preActivity
  /\ HandshakeFailed => lastReq.engine \notin EnginesOf(sessions)

C11_Witness ==
  /\ HandshakeFailed
  /\ lastReq.branch = "rejectedBeforeHeaders"
  /\ Len(lastReq.preSessions) = MAX_SESSIONS
  /\ Len(sessions) = MAX_SESSIONS

\* The keys that were registered at some time: the ids of the transports whose
\* onsessioninitialized callback has run.
IssuedKeys == {tSessionId[t] : t \in Transports} \ {Undefined}

\* The step just run was the synchronous part of a handler on an arriving
\* request, whatever the verb.
Arrived ==
  /\ lastReq.verb \in {"POST", "GET", "DELETE"}
  /\ lastReq.branch \in {"reuse", "create", "notfound", "badrequest", "missing"}

\* C12: a session is registered under a key no session was registered under
\* before; a key whose session has left the cache is never in the cache
\* again, and a request bearing it is answered 404.
C12_KeysNeverReused ==
  /\ [](\A t1, t2 \in Transports :
          (tSessionId[t1] # Undefined /\ tSessionId[t1] = tSessionId[t2]) => t1 = t2)
  /\ []((Arrived /\ lastReq.header \in IssuedKeys /\ HeaderUnresolved) =>
          /\ lastReq.response = NotFoundResponse
          /\ sessions = lastReq.preSessions)
  /\ [][\A k \in IssuedKeys : ~MapHas(sessions, k) => ~MapHas(sessions', k)]_vars

C12_Witness ==
  /\ Arrived
  /\ lastReq.verb = "POST"
  /\ lastReq.isInit
  /\ lastReq.header \in IssuedKeys
  /\ HeaderUnresolved
  /\ lastReq.response = NotFoundResponse
  /\ Len(sessions) >= 1
  /\ created < MaxTransports

\* ------------------------------------------ properties of session reuse
\* The request just classified bears the key of a session that was in the
\* cache when it arrived.
BearsLiveKey ==
  /\ Arrived
  /\ Truthy(lastReq.header)
  /\ MapHas(lastReq.preSessions, lastReq.header)

\* C13: a POST or GET that bears the key of a live session is handed to the
\* transport registered under that key, the one that generated the key, and to
\* no other; no transport is constructed or closed, and the entries, the order
\* and the timestamps of the other sessions are as before.
C13_ReuseGoesToTheBoundEngine ==
  (BearsLiveKey /\ lastReq.verb \in {"POST", "GET"}) =>
    /\ lastReq.branch = "reuse"
    /\ lastReq.engine = MapGet(lastReq.preSessions, lastReq.header)
    /\ tSessionId[lastReq.engine] = lastReq.header
    /\ \E r \in Reqs : /\ reqs[r].pc = "handling"
                       /\ reqs[r].verb = lastReq.verb
                       /\ reqs[r].transport = lastReq.engine
    /\ created = lastReq.preCreated
    /\ closeCalls = lastReq.preCloseCalls
    /\ KeysOf(sessions) = KeysOf(lastReq.preSessions)
    /\ SameOrderAndValues(lastReq.preSessions, sessions,
                          KeysOf(lastReq.preSessions) \ {lastReq.header})
    /\ MapGet(sessions, lastReq.header) = lastReq.engine
    /\ \A t \in Transports \ {lastReq.engine} : lastActivity[t] = lastReq.preActivity[t]

C13_Witness ==
  /\ BearsLiveKey
  /\ lastReq.verb = "GET"
  /\ lastReq.branch = "reuse"
  /\ Len(lastReq.preSessions) = 2
  /\ lastReq.preSessions[1].key = lastReq.header
  /\ lastReq.preActivity[lastReq.engine] < now

\* C14: a request that bears the key of a live session, whatever its verb,
\* sets the session's lastActivity to the current clock and makes the session
\* the most recently used of the cache.
C14_EveryVerbTouches ==
  BearsLiveKey =>
    /\ lastReq.branch = "reuse"
    /\ lastActivity[lastReq.engine] = now
    /\ sessions[Len(sessions)] = MapEntry(lastReq.header, lastReq.engine)

\* ------------------------------------------- properties of the idle sweep
\* The step just run was a tick of the cleanup interval.
Swept == lastReq.verb = "SWEEP"

\* The sessions that were idle for longer than the timeout when the tick began
IdleAtSweep ==
  {i \in DOMAIN lastReq.preSessions :
     now - lastReq.preActivity[lastReq.preSessions[i].value] > SESSION_IDLE_TIMEOUT_MS}

\* C15: lastActivity is never later than the clock, so a session that got no
\* request for longer than the idle timeout has now - lastActivity above the
\* timeout; a tick of the cleanup interval calls close() once on the transport
\* of every such session and removes its key from the cache; a request that
\* bears a key that is not in the cache is answered 404.
C15_IdleSessionsAreSwept ==
  /\ \A t \in Transports : lastActivity[t] <= now
  /\ Swept =>
       \A i \in IdleAtSweep :
         LET e == lastReq.preSessions[i]
         IN  /\ ~MapHas(sessions, e.key)
             /\ closeCalls[e.value] = lastReq.preCloseCalls[e.value] + 1
  /\ (Arrived /\ Truthy(lastReq.header) /\ HeaderUnresolved) =>
       lastReq.response = NotFoundResponse

C15_Witness ==
  /\ Swept
  /\ Len(lastReq.preSessions) = 2
  /\ IdleAtSweep = {1}
  /\ Len(sessions) = 1

\* --------------------------------------------- properties of the capacity
\* The step just run was the onsessioninitialized callback of a transport,
\* with the cache full when it began.
RegisteredIntoFullCache ==
  /\ lastReq.branch = "initialized"
  /\ Len(lastReq.preSessions) = MAX_SESSIONS

\* C16: the cache never holds more than MAX_SESSIONS sessions, and its order
\* is the order of the last requests that bore the sessions' keys; registering
\* a session into a full cache removes exactly one session, the one whose last
\* request is the oldest, calls close() once on its transport and on no other,
\* and leaves MAX_SESSIONS sessions, the new one last and the others in their
\* order.
C16_CapacityAndLruVictim ==
  /\ Len(sessions) <= MAX_SESSIONS
  /\ touchOrder = MapKeys(sessions)
  /\ RegisteredIntoFullCache =>
       LET victim == lastReq.preSessions[1]
       IN  /\ KeysOf(lastReq.preSessions) \ KeysOf(sessions) = {victim.key}
           /\ Len(sessions) = MAX_SESSIONS
           /\ sessions[Len(sessions)] =
                MapEntry(tSessionId[lastReq.engine], lastReq.engine)
           /\ SameOrderAndValues(lastReq.preSessions, sessions,
                                 KeysOf(lastReq.preSessions) \ {victim.key})
           /\ closeCalls[victim.value] = lastReq.preCloseCalls[victim.value] + 1
           /\ \A t \in Transports \ {victim.value} :
                closeCalls[t] = lastReq.preCloseCalls[t]

C16_Witness ==
  /\ RegisteredIntoFullCache
  /\ MAX_SESSIONS >= 2
  /\ lastReq.preSessions[1].value > lastReq.preSessions[2].value
  /\ closeCalls[lastReq.preSessions[1].value] = 1

\* ------------------------------------- properties of the closure signal
\* The step just run was the onclose handler of the transport lastReq.engine.
Signalled == lastReq.verb = "ONCLOSE"

\* C17: when a transport signals its closure, the key of its session is
\* removed from the cache if it is there; if it is not there (never
\* registered, or removed before) nothing changes; in both cases the other
\* sessions keep their entries, order and timestamps and no transport is
\* closed or constructed; afterwards the key is not in the cache, and a
\* request bearing a key that is not in the cache is answered 404.
C17_OncloseRemovesOnlyItsSession ==
  /\ Signalled =>
       LET k == tSessionId[lastReq.engine]
           others == KeysOf(lastReq.preSessions) \ {k}
       IN  /\ KeysOf(sessions) = others
           /\ Len(sessions) = Cardinality(others)
           /\ SameOrderAndValues(lastReq.preSessions, sessions, others)
           /\ ~MapHas(lastReq.preSessions, k) => sessions = lastReq.preSessions
           /\ \A t \in EnginesOf(sessions) : lastActivity[t] = lastReq.preActivity[t]
           /\ closeCalls = lastReq.preCloseCalls
           /\ created = lastReq.preCreated
  /\ (Arrived /\ lastReq.header \in IssuedKeys /\ HeaderUnresolved) =>
       lastReq.response.status = 404

C17_Witness ==
  /\ Signalled
  /\ Len(lastReq.preSessions) = 2
  /\ lastReq.preSessions[1].value = lastReq.engine
  /\ Len(sessions) = 1

\* ------------------------------------ properties of the DELETE handler
\* The step just run settled the await of transport.handleRequest of a DELETE
\* that bore the key lastReq.header.
DeleteSettled ==
  /\ lastReq.verb = "DELETE"
  /\ lastReq.branch \in {"resolved", "rejectedBeforeHeaders", "rejectedAfterHeaders"}

\* C18: once a DELETE that bore the key of a live session has been dispatched
\* and its dispatch has settled, the key is not in the cache.
C18_DeleteClosesTheSession ==
  DeleteSettled => ~MapHas(sessions, lastReq.header)

\* ------------------------------ properties of GET and DELETE requests
\* C19: a GET or DELETE that carries a key is either handed to the transport
\* of the live session with that key or answered 404 "Session not found"; no
\* transport is constructed and no session is registered.
C19_GetDeleteReuseOrNotFound ==
  (Arrived /\ lastReq.verb \in {"GET", "DELETE"} /\ lastReq.header # Absent) =>
    /\ lastReq.branch \in {"reuse", "notfound"}
    /\ HeaderUnresolved => lastReq.response = NotFoundResponse
    /\ created = lastReq.preCreated
    /\ KeysOf(sessions) = KeysOf(lastReq.preSessions)

\* C20: a GET or DELETE without an mcp-session-id header is answered 400
\* "Missing session ID" with code -32600 and id null, and the cache, the
\* timestamps and the transports are as before.
C20_MissingKeyIsBadRequest ==
  (Arrived /\ lastReq.verb \in {"GET", "DELETE"} /\ lastReq.header = Absent) =>
    /\ lastReq.response.status = 400
    /\ lastReq.response.code = -32600
    /\ lastReq.response.message = "Missing session ID"
    /\ lastReq.response.id = "null"
    /\ sessions = lastReq.preSessions
    /\ lastActivity = lastReq.preActivity
    /\ closeCalls = lastReq.preCloseCalls
    /\ created = lastReq.preCreated

C20_Witness ==
  /\ Arrived
  /\ lastReq.verb = "DELETE"
  /\ lastReq.header = Absent
  /\ lastReq.response.status = 400
  /\ Len(lastReq.preSessions) = 2

ChainStep ==
  lastReq.branch \in {"reuse", "create", "notfound", "badrequest", "missing",
                      "ratelimit", "preflight", "forbidden", "noroute"}

\* The step just run wrote (or let the transport write) a response to a
\* request on the /mcp path.
AnsweredOnMcp ==
  /\ MountedAt(lastReq.http.path, McpPath)
  /\ lastReq.response \notin {Pending, Unanswered}

HeaderNames(res) == {h[1] : h \in res.headers}

CorsHeaderNames == HeaderNames([headers |-> CorsHeaders("")])

\* C22: every response to a request on the /mcp path carries the cache
\* suppression headers (Cache-Control with no-store and no-cache, Pragma:
\* no-cache, Expires: 0), whichever stage produced it: the rate limiter, the
\* CORS preflight, the 400/404 classification, the transport or a 500.
C22_EveryMcpResponseUncacheable ==
  AnsweredOnMcp => NoCacheHeaders \subseteq lastReq.http.res.headers

\* C23: the CORS middleware sets Access-Control-* headers only when the
\* request has an Origin header and its path is allow-listed; a request with
\* an Origin header on a path that is not allow-listed is answered 403 with
\* no CORS header and is not passed on; a request without an Origin header is
\* passed on with no CORS header.
C23_CorsOnlyForAllowedOrigins ==
  (ChainStep /\ lastReq.branch # "ratelimit") =>
    LET q == lastReq.http
        cors == HeaderNames(q.res) \cap CorsHeaderNames
    IN  /\ cors # {} => (q.origin # OriginAbsent /\ isCorsAllowedPath(q.path))
        /\ (q.origin # OriginAbsent /\ ~isCorsAllowedPath(q.path)) =>
             /\ q.res.status = 403
             /\ cors = {}
             /\ lastReq.branch = "forbidden"
        /\ q.origin = OriginAbsent =>
             /\ cors = {}
             /\ lastReq.branch \notin {"preflight", "forbidden"}

\* C24: an OPTIONS request with an Origin header on an allow-listed path is
\* answered 204 with the CORS headers and goes no further down the chain: no
\* handler runs, no session is looked up, touched, created or closed, and the
\* cache is as before.
C24_PreflightStopsTheChain ==
  (ChainStep /\ lastReq.http.method = "OPTIONS" /\ lastReq.http.origin # OriginAbsent
     /\ isCorsAllowedPath(lastReq.http.path)) =>
    /\ lastReq.branch = "preflight"
    /\ lastReq.http.res.status = 204
    /\ CorsHeaders(lastReq.http.origin) \subseteq lastReq.http.res.headers
    /\ sessions = lastReq.preSessions
    /\ lastActivity = lastReq.preActivity
    /\ closeCalls = lastReq.preCloseCalls
    /\ created = lastReq.preCreated

\* ------------------------------------------ properties of the idle sweep
\* The sessions that were in the cache when the tick began and were not idle
\* for longer than the timeout.
FreshAtSweep == DOMAIN lastReq.preSessions \ IdleAtSweep

\* C26: a tick of the sweep closes and removes a session only if now -
\* lastActivity is strictly greater than the idle timeout at that tick; every
\* session with now - lastActivity <= timeout keeps its entry, its transport
\* (no close call), its lastActivity and its position among the survivors.
C26_SweepSparesFreshSessions ==
  Swept =>
    /\ \A i \in FreshAtSweep :
         LET e == lastReq.preSessions[i]
         IN  /\ MapGet(sessions, e.key) = e.value
             /\ closeCalls[e.value] = lastReq.preCloseCalls[e.value]
             /\ lastActivity[e.value] = lastReq.preActivity[e.value]
    /\ sessions = SelectSeq(lastReq.preSessions,
                            LAMBDA e : now - lastReq.preActivity[e.value]
                                         <= SESSION_IDLE_TIMEOUT_MS)
    /\ \A t \in Transports :
         closeCalls[t] # lastReq.preCloseCalls[t] =>
           \E i \in IdleAtSweep : lastReq.preSessions[i].value = t

C26_Witness ==
  /\ Swept
  /\ \E i \in FreshAtSweep :
       now - lastReq.preActivity[lastReq.preSessions[i].value] = SESSION_IDLE_TIMEOUT_MS
  /\ IdleAtSweep # {}
  /\ Len(sessions) = 1

\* C27: within one tick of the sweep every session that was in the cache when
\* the tick began is examined exactly once, in the order of the cache, none
\* skipped and none twice, also when cleanupSession moves the current key to
\* the most recent end and deletes it and the transport's close deletes it
\* synchronously as well.
C27_SweepVisitsEachOnce ==
  Swept => lastReq.visited = MapKeys(lastReq.preSessions)

C27_Witness ==
  /\ Swept
  /\ Cardinality(IdleAtSweep) = 2
  /\ sessions = <<>>
  /\ lastReq.syncClose = Transports
  /\ Len(lastReq.visited) = 2

\* The set call of onsessioninitialized ran on a full cache while close()
\* throws synchronously.
EvictedWhileCloseThrows ==
  /\ lastReq.verb = "POST"
  /\ lastReq.branch \in {"initialized", "threw"}
  /\ Len(lastReq.preSessions) = MAX_SESSIONS
  /\ lastReq.closeThrows # {}

\* C28: when close() of a transport throws synchronously during the idle
\* sweep or an eviction, the failure is absorbed: no exception leaves the
\* tick or the set call, the failing session's entry is removed, the other
\* idle sessions of the tick are closed and removed too, and the session
\* whose registration caused the eviction is registered.
C28_CloseFailuresAbsorbed ==
  /\ (Swept /\ lastReq.closeThrows # {}) =>
       /\ lastReq.branch = "sweep"
       /\ \A i \in IdleAtSweep :
            LET e == lastReq.preSessions[i]
            IN  /\ ~MapHas(sessions, e.key)
                /\ closeCalls[e.value] = lastReq.preCloseCalls[e.value] + 1
  /\ EvictedWhileCloseThrows =>
       /\ lastReq.branch = "initialized"
       /\ ~MapHas(sessions, lastReq.preSessions[1].key)
       /\ closeCalls[lastReq.preSessions[1].value] =
            lastReq.preCloseCalls[lastReq.preSessions[1].value] + 1
       /\ MapGet(sessions, tSessionId[lastReq.engine]) = lastReq.engine

C28_Witness ==
  /\ Swept
  /\ lastReq.closeThrows = Transports
  /\ Cardinality(IdleAtSweep) = 2
  /\ sessions = <<>>

\* The synchronous part of a POST or GET handler ran touchSession.
Touched ==
  /\ Arrived
  /\ lastReq.verb \in {"POST", "GET"}
  /\ lastReq.branch = "reuse"

\* C29: touchSession on a live session never evicts: also when the cache is
\* at capacity the set of registered keys and the size of the cache are as
\* before, no transport is closed, and only the lastActivity and the recency
\* position of that session change.
C29_TouchNeverEvicts ==
  Touched =>
    /\ KeysOf(sessions) = KeysOf(lastReq.preSessions)
    /\ Len(sessions) = Len(lastReq.preSessions)
    /\ closeCalls = lastReq.preCloseCalls
    /\ \A t \in Transports \ {lastReq.engine} : lastActivity[t] = lastReq.preActivity[t]
    /\ lastActivity[lastReq.engine] = now
    /\ sessions[Len(sessions)] = MapEntry(lastReq.header, lastReq.engine)
    /\ SameOrderAndValues(lastReq.preSessions, sessions,
                          KeysOf(lastReq.preSessions) \ {lastReq.header})

C29_Witness ==
  /\ Touched
  /\ lastReq.verb = "POST"
  /\ Len(lastReq.preSessions) = MAX_SESSIONS
  /\ lastReq.preSessions[1].key = lastReq.header
  /\ lastReq.preActivity[lastReq.engine] < now

\* ------------------------------------------------ properties of shutdown
\* The step just run was the shutdown handler.
ShutDown == lastReq.verb = "SHUTDOWN"

\* C25: when a termination signal arrives with M live sessions, each of the
\* M transports gets a close call, also when close throws synchronously on
\* some of them and when closing a transport removes its entry from the
\* cache the loop is iterating; afterwards the process eventually exits with
\* code 0, once the grace delay has passed.
C25_ShutdownClosesAllThenExits ==
  /\ [](ShutDown =>
         /\ lastReq.branch = "shutdown"
         /\ lastReq.visited = MapKeys(lastReq.preSessions)
         /\ \A i \in DOMAIN lastReq.preSessions :
              LET t == lastReq.preSessions[i].value
              IN  closeCalls[t] = lastReq.preCloseCalls[t] + 1)
  /\ [](process.exitCode # NotExited =>
         /\ process.exitCode = 0
         /\ process.exitAt # 0
         /\ now >= process.exitAt)
  /\ (ShutDown ~> process.exitCode = 0)

C25_Witness ==
  /\ ShutDown
  /\ Len(lastReq.preSessions) = 2
  /\ lastReq.closeThrows = Transports
  /\ lastReq.syncClose = Transports
  /\ lastReq.preCloseCalls = [t \in Transports |-> 0]

\* C30: right after the shutdown handler has run the cache is empty and the
\* sweep timer is cancelled, and no tick of the sweep runs once shutdown was
\* triggered; the handler stops accepting connections, cancels the sweep
\* timer, closes every live transport, clears the cache and schedules the
\* exit, in this order.
C30_ShutdownStopsSweepAndClears ==
  /\ ShutDown =>
       /\ sessions = <<>>
       /\ ~process.sweepTimer
       /\ ~process.listening
       /\ process.exitAt # 0
       /\ lastReq.steps = <<"server.close", "clearInterval">>
                            \o [i \in 1..Len(lastReq.preSessions) |-> "transport.close"]
                            \o <<"sessions.clear", "setTimeout">>
  /\ process.exitAt # 0 => ~process.sweepTimer
  /\ Swept => process.exitAt = 0

C30_Witness ==
  /\ ShutDown
  /\ Len(lastReq.preSessions) = 2
  /\ \E r \in Reqs : reqs[r].pc = "handling"

\* ------------------------------------------ properties across the handlers
\* C31: the lastActivity of a session never decreases.  A session is
\* registered with the current time, and every step that leaves it registered
\* leaves its lastActivity as it was or sets it to the current time, which is
\* not before the old value: over the steps of requests for the session,
\* requests for other sessions, sweeps and evictions the values form a
\* non-decreasing sequence bounded by the clock.
C31_ActivityNeverDecreases ==
  \A t \in EnginesOf(sessions) :
    /\ lastActivity[t] <= now
    /\ lastActivity[t] >= 1
    /\ lastReq # NoReq /\ t \in EnginesOf(lastReq.preSessions) =>
         /\ lastActivity[t] >= lastReq.preActivity[t]
         /\ lastActivity[t] \in {lastReq.preActivity[t], now}

C31_Witness ==
  /\ lastReq.verb = "GET"
  /\ lastReq.branch = "reuse"
  /\ Len(sessions) = 2
  /\ lastReq.engine \in EnginesOf(lastReq.preSessions)
  /\ lastActivity[lastReq.engine] > lastReq.preActivity[lastReq.engine]
  /\ \E t \in EnginesOf(sessions) : lastActivity[t] < now

\* The handlers suspended in the create branch, each with the transport it
\* constructed.
Creating == {r \in DOMAIN reqs : reqs[r].pc # "idle" /\ reqs[r].create}

\* C32: an engine is owned by one session.  No two entries of the cache hold
\* the same transport, the key of an entry is the one session id of its
\* transport, and this stays so while several initialize requests are in
\* flight: each handler suspended in the create branch holds a transport of
\* its own, which is in the cache only under its own id.
C32_EngineOwnedByOneSession ==
  /\ \A i, j \in DOMAIN sessions :
       sessions[i].value = sessions[j].value => i = j
  /\ \A i \in DOMAIN sessions :
       /\ sessions[i].value \in 1..created
       /\ tSessionId[sessions[i].value] = sessions[i].key
  /\ \A r, q \in Creating : reqs[r].transport = reqs[q].transport => r = q
  /\ \A r \in Creating :
       tSessionId[reqs[r].transport] = Undefined =>
         reqs[r].transport \notin EnginesOf(sessions)

C32_Witness ==
  /\ Cardinality(Creating) = 2
  /\ \A r \in Creating : reqs[r].pc = "handling" /\ reqs[r].transport \in EnginesOf(sessions)
  /\ lastReq.branch = "initialized"
  /\ Len(lastReq.preSessions) = 1
  /\ Len(sessions) = 2

\* The step just run handed a POST or GET that bears a live key to a transport.
HandedOver ==
  /\ lastReq.verb \in {"POST", "GET"}
  /\ lastReq.branch = "reuse"

\* C33: on the reuse paths of POST and GET the lookup, the refresh and the
\* call of handleRequest are one step of the event loop.  When the request is
\* handed to a transport, the session of that transport is in the cache under
\* the key the request bears, as its most recent entry, with the current
\* time as lastActivity; the server has not closed the transport, nothing was
\* removed from the cache and no transport was closed during the step, and
\* the handler is suspended in the dispatch to that transport.
C33_HandOverToRegisteredEngine ==
  HandedOver =>
    /\ MapHas(sessions, lastReq.header)
    /\ sessions[Len(sessions)] = MapEntry(lastReq.header, lastReq.engine)
    /\ MapGet(lastReq.preSessions, lastReq.header) = lastReq.engine
    /\ lastActivity[lastReq.engine] = now
    /\ KeysOf(sessions) = KeysOf(lastReq.preSessions)
    /\ closeCalls = lastReq.preCloseCalls
    /\ closeCalls[lastReq.engine] = 0
    /\ \E r \in DOMAIN reqs :
         /\ reqs[r].pc = "handling"
         /\ reqs[r].verb = lastReq.verb
         /\ reqs[r].transport = lastReq.engine

\* A session that the next sweep would have closed is handed a request.
C33_Witness ==
  /\ HandedOver
  /\ lastReq.verb = "GET"
  /\ Len(lastReq.preSessions) = MAX_SESSIONS
  /\ now - lastReq.preActivity[lastReq.engine] > SESSION_IDLE_TIMEOUT_MS
  /\ lastReq.engine \in EnginesOf(sessions)

\* C34: the cache holds the sessions in non-decreasing order of lastActivity
\* (entries() yields them so), and the session a registration into a full
\* cache evicts has the smallest lastActivity of the sessions registered then.
C34_RecencyAgreesWithActivity ==
  /\ \A i, j \in DOMAIN sessions :
       i < j => lastActivity[sessions[i].value] <= lastActivity[sessions[j].value]
  /\ RegisteredIntoFullCache =>
       \A i \in DOMAIN lastReq.preSessions :
         lastReq.preActivity[lastReq.preSessions[1].value]
           <= lastReq.preActivity[lastReq.preSessions[i].value]

\* The transports that were registered once (a transport gets its session id
\* when it is registered) and are not in the cache.
Departed == {t \in Transports : tSessionId[t] # Undefined /\ t \notin EnginesOf(sessions)}

\* C35: no registered engine is leaked.  In every reachable state, each
\* transport that was registered and is no longer in the cache either had
\* close() called on it by the server (eviction hook, idle sweep, shutdown)
\* or was removed by its own onclose handler, that is, signalled its closure.
C35_NoEngineLeaked ==
  \A t \in Departed : closeCalls[t] > 0 \/ t \in selfClosed

\* One transport left by its own closure, another was closed by the server.
C35_Witness ==
  /\ \E t \in Departed : closeCalls[t] = 0 /\ t \in selfClosed
  /\ \E t \in Departed : closeCalls[t] = 1 /\ t \notin selfClosed
  /\ lastReq.branch = "shutdown"
  /\ Len(lastReq.preSessions) = 1

\* C36: the server calls close() on a transport at most once over the life
\* of the process, whichever of the eviction hook, the idle sweep and the
\* shutdown handler makes the call, however often the termination signal is
\* delivered, and also when close() runs the transport's onclose handler
\* before it returns.
C36_ClosedAtMostOnce ==
  \A t \in Transports : closeCalls[t] <= 1

\* A second termination signal, delivered after the clock moved on: the exit
\* timer of the first is still pending, transports closed before stay closed
\* once, and a session registered in between is closed now.
C36_Witness ==
  /\ lastReq.verb = "SHUTDOWN"
  /\ process.exitAt # 0
  /\ process.exitAt < now + SHUTDOWN_GRACE_MS
  /\ lastReq.syncClose = Transports
  /\ \E t \in Transports : lastReq.preCloseCalls[t] = 1 /\ closeCalls[t] = 1
  /\ \E t \in EnginesOf(lastReq.preSessions) : lastReq.preCloseCalls[t] = 0 /\ closeCalls[t] = 1

\* C37: once the shutdown handler has cleared the cache, the cache stays
\* empty until the process exits: no session is registered after a
\* termination signal, whatever requests were in flight when it arrived.
C37_NoSessionAfterShutdown ==
  process.exitAt # 0 => sessions = <<>>

\* The step just run was the completion of a dispatch (await
\* transport.handleRequest settled).
Completed ==
  lastReq.branch \in {"resolved", "rejectedBeforeHeaders", "rejectedAfterHeaders"}

\* The transports that have a request in flight.
Busy == {reqs[r].transport : r \in {q \in DOMAIN reqs : reqs[q].pc # "idle"}}

\* C38: idle time runs from the start of a dispatch.  Handing a POST or GET to
\* a session's transport sets lastActivity to the time of the hand-over, and
\* the completion of a dispatch changes neither lastActivity nor the cache.
\* A tick of the cleanup interval closes and removes every session whose
\* lastActivity is older than the timeout, whether or not a request to that
\* session is still in flight (the tick does not look at the requests).
C38_IdleCountsFromDispatchStart ==
  /\ HandedOver => lastActivity[lastReq.engine] = now
  /\ Completed =>
       /\ lastActivity = lastReq.preActivity
       /\ sessions = lastReq.preSessions
  /\ Swept =>
       \A i \in IdleAtSweep :
         LET e == lastReq.preSessions[i]
         IN  /\ ~MapHas(sessions, e.key)
             /\ e.value \notin EnginesOf(sessions)
             /\ closeCalls[e.value] = lastReq.preCloseCalls[e.value] + 1

\* The sweep closes a session whose GET is still in flight.
C38_Witness ==
  /\ Swept
  /\ \E i \in IdleAtSweep :
       /\ lastReq.preSessions[i].value \in Busy
       /\ lastReq.preSessions[i].value \notin EnginesOf(sessions)
       /\ closeCalls[lastReq.preSessions[i].value] = 1
  /\ \E r \in DOMAIN reqs : reqs[r].pc = "handling" /\ reqs[r].verb = "GET"

\* ------------------------------------- LRUCache.set with a throwing hook
\* C39: a set whose eviction hook throws throws itself and leaves the cache
\* in the state the hook saw: the cache was full and did not hold the key;
\* the oldest entry is gone and the hook was called once with it; the new key
\* is not inserted; the size is maxSize - 1; the other entries keep their
\* order and values.  A set throws in no other case, and a set that does not
\* throw inserts the key.
C39_ThrowingHookLeavesVictimRemoved ==
  lastCall.op = "set" =>
    /\ lastCall.threw =>
         /\ hasOnEvict
         /\ lastCall.key \notin PreKeys
         /\ Len(lastCall.pre) = maxSize
         /\ Len(lastCall.hookCalls) = 1
         /\ lastCall.hookCalls[1].key = lastCall.pre[1].key
         /\ lastCall.hookCalls[1].value = lastCall.pre[1].value
         /\ lastCall.hookCalls[1].seen = cache
         /\ cache = Tail(lastCall.pre)
         /\ lastCall.key \notin PostKeys
         /\ Len(cache) = maxSize - 1
    /\ ~lastCall.threw => lastCall.key \in PostKeys

C39_Witness ==
  /\ lastCall.op = "set"
  /\ lastCall.threw
  /\ maxSize = 2
  /\ Len(cache) = 1
  /\ cache[1] = lastCall.pre[2]
====
